---- MODULE Spec2Model ----
(***************************************************************************)
(* Crawl orchestration pipeline of auction-crawler (src/pipeline.py,       *)
(* src/fetcher.py, src/models.py): page-count discovery on page 1, the     *)
(* main sweep in sequential or batched mode, the retry pass, validation    *)
(* and the hand-off to the storage step (Spec, SpecAnyLimit), a run after  *)
(* a run (SpecRerun, SpecRunAgain) and the legacy main() of                *)
(* court_auction_crawler.py beside it (SpecLegacy); the retry_with_backoff *)
(* decorator of utils.py (RetrySpec); create_pnu and process_batch of      *)
(* pnu_generator.py (PnuSpec).                                             *)
(***************************************************************************)
EXTENDS Integers, Sequences, FiniteSets, TLC

(***************************************************************************)
(* Bounds of the model.                                                    *)
(***************************************************************************)
\* largest page count of a small crawl
MaxPages == 4
\* page size requested by the crawler and echoed by the server (scaled)
PageSize == 2
\* largest number of non-ok responses of the transport in a small crawl
MaxFaults == 2
\* largest number of non-ok responses of the transport in a large crawl
LargeFaults == 1
\* largest max_retries given to retry_with_backoff
RbMaxRetries == 3
\* largest base_delay given to retry_with_backoff
RbMaxBase == 2
\* largest max_delay given to retry_with_backoff
RbMaxCap == 5

(***************************************************************************)
(* Program constants.                                                      *)
(***************************************************************************)
\* batch_size = concurrency * 3
BatchFactor == 3
\* CrawlingSettings.max_retries (read by no code of the pipeline)
max_retries == 3

\* values of settings.crawling.concurrency_limit explored: 1 selects the
\* sequential sweep, any other value the batched sweep
Concurrencies == {1, 2}

\* what the transport answers to one request:
\*   ok      a 2xx JSON body carrying the page's items and page info
\*   empty   a 2xx JSON body with an empty item list
\*   err     non-2xx status, network failure, timeout or malformed body
\*   blocked a 2xx JSON body whose error/message field has a block phrase
\*   err_phrase  a non-2xx status whose reason phrase has a block phrase:
\*           raise_for_status raises an aiohttp.ClientError whose text holds it
\*   blocked_items  a 2xx JSON body whose message field has a block phrase
\*           and whose data node carries the page's items as well
\*   coded_block  as blocked_items, with an error field that holds an error
\*           code and no block phrase
Kinds == {"ok", "empty", "err", "blocked", "err_phrase", "blocked_items",
          "coded_block"}

\* the answers other than ok that the crawls of the pipeline meet
PlainFaults == {"empty", "err", "blocked"}

\* page count of a large crawl: at concurrency 2 the sweep pages 2..LargePages
\* fill one batch and start a second
LargePages == 1 + 2 * BatchFactor + 1

\* largest page number of any crawl
TopPage == IF LargePages > MaxPages THEN LargePages ELSE MaxPages

VARIABLES
    concurrency_limit,  \* settings.crawling.concurrency_limit
    srv_cnt,            \* number of items the server holds
    pc,                 \* position of the orchestrating coroutine run()
    all_auctions,       \* CrawlPipeline.all_auctions
    successful_pages,   \* CrawlPipeline.successful_pages
    failed_pages,       \* CrawlPipeline.failed_pages
    blocked_pages,      \* CrawlPipeline.blocked_pages
    total_cnt,          \* CrawlPipeline._total_cnt (0 while unset, as getattr reads it)
    total_pages,        \* total_pages of run(); -1 stands for None
    idx,                \* number of pages the sequential loop has handled
    batch_start,        \* batch_start of _fetch_batched
    tasks,              \* state of the fetch task of each page: none/running/done/cancelled
    completed,          \* pages of the batch in the order their tasks finished
    consumed,           \* number of results as_completed has handed to the loop
    batch_blocked,      \* batch_blocked of _fetch_batched
    retry_pages,        \* retry_pages of _retry_failed_pages
    retry_idx,          \* number of retry_pages handled
    hist,               \* per page, the kinds of the responses delivered so far
    faults,             \* number of non-ok responses delivered so far
    fault_budget,       \* largest number of non-ok responses of this run
    fault_kinds,        \* kinds of the non-ok responses of this run
    cooldowns,          \* number of blocked_wait_time sleeps of the sweep
    cooled,             \* sweep pages whose loop iteration or batch ended with such a sleep
    saves,              \* arguments of the calls of save_auction_data, in order
    verdict,            \* outcome logged by _validate_and_save
    reported_cnt,       \* totalCnt the server reports in its page info
    caught,             \* origin of the exception run() caught and logged, or "none"
    retry_fetched,      \* pages the retry pass has requested, in order
    retry_trace,        \* the sleeps and fetches of _retry_failed_pages, in order
    \* one call of a function decorated by retry_with_backoff (utils.py)
    rb_pc,              \* position in wrapper: idle/call/sleep/returned/raised
    rb_max_retries,     \* current_retries
    rb_base_delay,      \* current_delay
    rb_max_delay,       \* max_delay
    rb_fail_first,      \* number of leading calls of func that raise
    rb_attempt,         \* attempt of the for loop
    rb_last_exception,  \* last_exception; <<>> stands for None
    rb_trace,           \* the calls of func and of asyncio.sleep made so far, in order
    rb_outcome,         \* value returned or exception raised by wrapper; <<>> while running
    \* a pipeline run over again against the same transport
    run_no,             \* 1 in the first run of the pipeline, 2 in the second
    prev_hist,          \* hist at the end of the first run
    prev_total_pages,   \* total_pages at the end of the first run
    prev_auctions,      \* all_auctions at the end of the first run
    prev_failed,        \* failed_pages at the end of the first run
    prev_blocked,       \* blocked_pages at the end of the first run
    \* one call of process_batch (pnu_generator.py)
    pnu_pc,             \* position in process_batch: idle/create/gather/collect/returned
    df,                 \* the rows of df: the five columns create_pnu reads
    start_idx,          \* start_idx
    batch_size,         \* batch_size
    row_pnus,           \* per row of batch_df, the list create_pnu returned for it
    batch_pnus,         \* batch_pnus
    original_indices,   \* original_indices
    results,            \* results of asyncio.gather
    batch_results       \* batch_results

\* the state of one call of a decorated function
rb_vars == <<rb_pc, rb_max_retries, rb_base_delay, rb_max_delay, rb_fail_first,
             rb_attempt, rb_last_exception, rb_trace, rb_outcome>>

\* the state of one run of the pipeline
pipeline_vars ==
    <<concurrency_limit, srv_cnt, pc, all_auctions, successful_pages,
      failed_pages, blocked_pages, total_cnt, total_pages, idx, batch_start,
      tasks, completed, consumed, batch_blocked, retry_pages, retry_idx,
      hist, faults, fault_budget, fault_kinds, cooldowns, cooled, saves, verdict,
      reported_cnt, caught, retry_fetched, retry_trace>>

\* what an earlier run of the pipeline against the same transport left
run_vars == <<run_no, prev_hist, prev_total_pages, prev_auctions, prev_failed,
              prev_blocked>>

\* the state of one call of process_batch
pnu_vars == <<pnu_pc, df, start_idx, batch_size, row_pnus, batch_pnus,
              original_indices, results, batch_results>>

vars == <<pipeline_vars, rb_vars, run_vars, pnu_vars>>

(***************************************************************************)
(* Helpers on sequences.                                                   *)
(***************************************************************************)
Range(s) == {s[i] : i \in 1..Len(s)}

Min(a, b) == IF a < b THEN a ELSE b

\* pages[lo:hi] of Python for a list pages (0-based, hi exclusive, clipped)
Slice(s, lo, hi) == SubSeq(s, lo + 1, Min(hi, Len(s)))

\* list(range(a, b + 1))
PageList(a, b) == [i \in 1..(IF b >= a THEN b - a + 1 ELSE 0) |-> a + i - 1]

(***************************************************************************)
(* The server and the transport.                                           *)
(***************************************************************************)
\* number of items the server holds on page p
ServerCount(p) ==
    IF srv_cnt - (p - 1) * PageSize <= 0 THEN 0
    ELSE Min(PageSize, srv_cnt - (p - 1) * PageSize)

\* the records of page p; a record is identified by its page and position
ServerItems(p) == [i \in 1..ServerCount(p) |-> <<p, i>>]

\* the JSON body of a 2xx response of kind k to the request of page p.
\* A text is "" (absent or empty), "code" (a text without a block phrase)
\* or "phrase" (a text with one); auctions is data.dlt_srchResult.
Body(p, k) ==
    [error   |-> IF k = "blocked" THEN "phrase"
                 ELSE IF k = "coded_block" THEN "code" ELSE "",
     message |-> IF k \in {"blocked_items", "coded_block"} THEN "phrase"
                 ELSE "",
     auctions |-> IF k \in {"ok", "blocked_items", "coded_block"}
                  THEN ServerItems(p) ELSE <<>>]

\* is_blocked_response: result.get('error') or result.get('message', '')
\* is the error text unless that is absent or empty
is_blocked_response(result) ==
    LET error_message == IF result.error /= "" THEN result.error
                         ELSE result.message
    IN  error_message = "phrase"

\* fetch_auction_page: what the call gives for a response of kind k to the
\* request of page p.  raised /= "none" stands for the exception raised.
\* The block phrase is looked for before the items are returned.
FetchAuctionPage(p, k) ==
    IF k = "err_phrase" THEN [raised |-> "client_phrase", auctions |-> <<>>]
    ELSE IF k = "err" THEN [raised |-> "error", auctions |-> <<>>]
    ELSE LET result == Body(p, k) IN
         IF is_blocked_response(result)
         THEN [raised |-> "blocked", auctions |-> <<>>]
         ELSE [raised |-> "none", auctions |-> result.auctions]

\* fetch_page_safe: one call of fetch_auction_page, every exception turned
\* into a CrawlResult.  has_auctions = FALSE stands for auctions = None.
FetchPageSafe(p, k) ==
    LET r == FetchAuctionPage(p, k) IN
    IF r.raised = "none"
    THEN [page_num |-> p, has_auctions |-> TRUE, auctions |-> r.auctions,
          is_blocked |-> FALSE, error |-> FALSE]
    ELSE IF r.raised = "blocked"
    THEN [page_num |-> p, has_auctions |-> FALSE, auctions |-> <<>>,
          is_blocked |-> TRUE, error |-> TRUE]
    ELSE [page_num |-> p, has_auctions |-> TRUE, auctions |-> <<>>,
          is_blocked |-> FALSE, error |-> TRUE]

\* CrawlResult.is_success
IsSuccess(result) == result.has_auctions /\ Len(result.auctions) > 0

(***************************************************************************)
(* _process_result: the new value of each collection.                      *)
(***************************************************************************)
ProcessBlocked(result) ==
    IF result.is_blocked THEN Append(blocked_pages, result.page_num)
    ELSE blocked_pages

\* the items of a page are put in front of the list
ProcessAuctionsInFront(result) ==
    IF ~result.is_blocked /\ IsSuccess(result)
    THEN result.auctions \o all_auctions
    ELSE all_auctions

ProcessAuctions(result) ==
    IF ~result.is_blocked /\ IsSuccess(result)
    THEN all_auctions \o result.auctions
    ELSE all_auctions

ProcessSuccessful(result) ==
    IF ~result.is_blocked /\ IsSuccess(result)
    THEN successful_pages \cup {result.page_num}
    ELSE successful_pages

\* a Blocked result counts as a failed one as well
ProcessFailedAlsoBlocked(result) ==
    IF ~IsSuccess(result)
    THEN Append(failed_pages, result.page_num)
    ELSE failed_pages

ProcessFailed(result) ==
    IF ~result.is_blocked /\ ~IsSuccess(result)
    THEN Append(failed_pages, result.page_num)
    ELSE failed_pages

\* the transport may answer a request with kind k
MayAnswer(k) == k = "ok" \/ (faults < fault_budget /\ k \in fault_kinds)

\* the transport is the one of the earlier run: it answers the n-th
\* request of page p as it did then
SameTransport(p, k) ==
    Len(hist[p]) < Len(prev_hist[p]) => k = prev_hist[p][Len(hist[p]) + 1]

Delivered(p, k) ==
    /\ SameTransport(p, k)
    /\ hist' = [hist EXCEPT ![p] = Append(@, k)]
    /\ faults' = IF k = "ok" THEN faults ELSE faults + 1

\* the quotient rounded down in place of up
TotalPagesFloor(cnt, size) == cnt \div size

\* ceil(total_cnt / page_size) as _fetch_first_page computes it
TotalPages(cnt, size) == (cnt + size - 1) \div size

\* no call of a decorated function is under way
RbIdle ==
    /\ rb_pc = "idle"
    /\ rb_max_retries = 0
    /\ rb_base_delay = 0
    /\ rb_max_delay = 0
    /\ rb_fail_first = 0
    /\ rb_attempt = 0
    /\ rb_last_exception = <<>>
    /\ rb_trace = <<>>
    /\ rb_outcome = <<>>

\* no call of process_batch is under way
PnuIdle ==
    /\ pnu_pc = "idle"
    /\ df = <<>>
    /\ start_idx = 0
    /\ batch_size = 0
    /\ row_pnus = <<>>
    /\ batch_pnus = <<>>
    /\ original_indices = <<>>
    /\ results = <<>>
    /\ batch_results = <<>>

\* no run of the pipeline went before
FirstRun ==
    /\ run_no = 1
    /\ prev_hist = [p \in 1..TopPage |-> <<>>]
    /\ prev_total_pages = -1
    /\ prev_auctions = <<>>
    /\ prev_failed = <<>>
    /\ prev_blocked = <<>>

\* the fields of a CrawlPipeline after __init__, and the locals of run() and
\* of the methods it calls before their first assignment
Constructed ==
    /\ all_auctions = <<>>
    /\ successful_pages = {}
    /\ failed_pages = <<>>
    /\ blocked_pages = <<>>
    /\ total_cnt = 0
    /\ total_pages = -1
    /\ idx = 0
    /\ batch_start = 0
    /\ tasks = [p \in 1..TopPage |-> "none"]
    /\ completed = <<>>
    /\ consumed = 0
    /\ batch_blocked = FALSE
    /\ retry_pages = <<>>
    /\ retry_idx = 0
    /\ retry_fetched = <<>>
    /\ retry_trace = <<>>
    /\ hist = [p \in 1..TopPage |-> <<>>]
    /\ faults = 0
    /\ cooldowns = 0
    /\ cooled = {}
    /\ saves = <<>>
    /\ verdict = "none"
    /\ caught = "none"

\* the state when run() is entered, for a concurrency_limit of limits.
\* The listing is live: in a small crawl the reported total may lag one item
\* behind what the pages hold.  A small crawl meets every kind of response,
\* the large crawl the ok and the blocked ones.
InitFor(limits) ==
    /\ concurrency_limit \in limits
    /\ \/ /\ srv_cnt \in 0..(MaxPages * PageSize)
          /\ reported_cnt \in {srv_cnt, srv_cnt - 1} \cap Nat
          /\ fault_budget = MaxFaults
          /\ fault_kinds = PlainFaults
       \/ /\ srv_cnt = LargePages * PageSize
          /\ reported_cnt = srv_cnt
          /\ fault_budget = LargeFaults
          /\ fault_kinds = {"blocked"}
    /\ pc = "first_page"
    /\ Constructed
    /\ RbIdle
    /\ FirstRun
    /\ PnuIdle

Init == InitFor(Concurrencies)

(***************************************************************************)
(* run(), step 1: _fetch_first_page.  The response of page 1 either makes  *)
(* fetch_auction_page raise, or lacks the total count, or carries it.      *)
(***************************************************************************)
\* position of run() after a page count was obtained
AfterFirstPage(n) ==
    IF n > 1
    THEN (IF concurrency_limit = 1 THEN "sequential" ELSE "batch_launch")
    ELSE "retry_start"

\* the no-total branch saves nothing
NoTotalSavesNothing(auctions) == saves

\* the no-total branch of _fetch_first_page: if auctions: extend, then
\* save_auction_data(self.all_auctions).  An exception of the save is caught
\* by the handler of _fetch_first_page, which returns None as the branch does.
NoTotalSaves(auctions) ==
    IF Len(auctions) > 0
    THEN Append(saves, all_auctions \o auctions)
    ELSE saves

\* run() goes on to the retry pass when no page count was obtained
AfterNoPageCountGoesOn == "retry_start"

\* position of run() after _fetch_first_page returned None:
\* if total_pages is None: return self.all_auctions
AfterNoPageCount == "done"

FetchFirstPage ==
    /\ pc = "first_page"
    /\ \E k \in Kinds, has_total \in BOOLEAN :
        LET r == FetchAuctionPage(1, k) IN
        /\ MayAnswer(k)
        /\ Delivered(1, k)
        /\ run_no = 2 => (has_total <=> prev_total_pages >= 0)
        /\ IF r.raised /= "none"
           THEN /\ pc' = AfterNoPageCount
                /\ UNCHANGED <<all_auctions, successful_pages, total_cnt,
                               total_pages, saves>>
           ELSE IF ~has_total
           THEN /\ pc' = AfterNoPageCount
                /\ all_auctions' = all_auctions \o r.auctions
                /\ saves' = NoTotalSaves(r.auctions)
                /\ UNCHANGED <<successful_pages, total_cnt, total_pages>>
           ELSE /\ total_cnt' = reported_cnt
                /\ total_pages' = TotalPages(reported_cnt, PageSize)
                /\ all_auctions' = all_auctions \o r.auctions
                /\ successful_pages' = successful_pages \cup {1}
                /\ pc' = AfterFirstPage(TotalPages(reported_cnt, PageSize))
                /\ UNCHANGED saves
    /\ UNCHANGED <<rb_vars, run_vars, pnu_vars, retry_trace, concurrency_limit, srv_cnt, reported_cnt, fault_budget, fault_kinds,
                   caught, retry_fetched, failed_pages, blocked_pages, idx,
                   batch_start, tasks, completed, consumed, batch_blocked,
                   retry_pages, retry_idx, cooldowns, cooled, verdict>>

\* all_pages of _fetch_remaining_pages
AllPages == PageList(2, total_pages)

\* self._process_result(result)
ProcessResult(result) ==
    /\ blocked_pages' = ProcessBlocked(result)
    /\ all_auctions' = ProcessAuctions(result)
    /\ successful_pages' = ProcessSuccessful(result)
    /\ failed_pages' = ProcessFailed(result)

(***************************************************************************)
(* _fetch_sequential: one iteration of the loop.  The batch delay every    *)
(* tenth page is a wait that changes nothing and is left out.              *)
(***************************************************************************)
\* a Blocked result ends the loop
AfterPageStopsOnBlock(result) ==
    IF result.is_blocked \/ idx + 1 = Len(AllPages)
    THEN "retry_start"
    ELSE "sequential"

\* position of run() after the iteration that handled result: the loop goes
\* on to the next page, whatever the result, until pages is exhausted
AfterPage(result) ==
    IF idx + 1 = Len(AllPages) THEN "retry_start" ELSE "sequential"

FetchSequential ==
    /\ pc = "sequential"
    /\ idx < Len(AllPages)
    /\ \E k \in Kinds :
        LET page_num == AllPages[idx + 1]
            result == FetchPageSafe(page_num, k) IN
        /\ MayAnswer(k)
        /\ Delivered(page_num, k)
        /\ ProcessResult(result)
        /\ cooldowns' = IF result.is_blocked THEN cooldowns + 1 ELSE cooldowns
        /\ cooled' = IF result.is_blocked THEN cooled \cup {page_num} ELSE cooled
        /\ pc' = AfterPage(result)
    /\ idx' = idx + 1
    /\ UNCHANGED <<rb_vars, run_vars, pnu_vars, retry_trace, concurrency_limit, srv_cnt, reported_cnt, fault_budget, fault_kinds,
                   caught, retry_fetched, total_cnt, total_pages,
                   batch_start, tasks, completed, consumed, batch_blocked,
                   retry_pages, retry_idx, saves, verdict>>

(***************************************************************************)
(* _fetch_batched.                                                         *)
(***************************************************************************)
BatchSize == concurrency_limit * BatchFactor

\* every page from batch_start on is in the batch
BatchPagesToEnd == Slice(AllPages, batch_start, Len(AllPages))

\* batch_pages = pages[batch_start:batch_start + batch_size]
BatchPages == Slice(AllPages, batch_start, batch_start + BatchSize)

\* tasks = [asyncio.create_task(fetch_page_safe(...)) for page in batch_pages]
\* for batch_start in range(0, len(pages), batch_size): a step of 0 makes
\* range() raise ValueError, which leaves _fetch_batched and
\* _fetch_remaining_pages and is caught and logged by run()
SchedulerError ==
    /\ pc = "batch_launch"
    /\ BatchSize = 0
    /\ caught' = "scheduler"
    /\ pc' = "done"
    /\ UNCHANGED <<rb_vars, run_vars, pnu_vars, retry_trace, concurrency_limit, srv_cnt, reported_cnt, fault_budget, fault_kinds,
                   retry_fetched, all_auctions, successful_pages, failed_pages,
                   blocked_pages, total_cnt, total_pages, idx, batch_start, tasks,
                   completed, consumed, batch_blocked, retry_pages, retry_idx,
                   hist, faults, cooldowns, cooled, saves, verdict>>

LaunchBatch ==
    /\ pc = "batch_launch"
    /\ BatchSize /= 0
    /\ tasks' = [p \in DOMAIN tasks |->
                    IF p \in Range(BatchPages) THEN "running" ELSE tasks[p]]
    /\ batch_blocked' = FALSE
    /\ completed' = <<>>
    /\ consumed' = 0
    /\ pc' = "batch_wait"
    /\ UNCHANGED <<rb_vars, run_vars, pnu_vars, retry_trace, concurrency_limit, srv_cnt, reported_cnt, fault_budget, fault_kinds,
                   caught, retry_fetched, all_auctions, successful_pages,
                   failed_pages, blocked_pages, total_cnt, total_pages, idx,
                   batch_start, retry_pages, retry_idx, hist, faults, cooldowns,
                   cooled, saves, verdict>>

\* the task writes its result into the fields of the pipeline itself
TaskFinishWrites(p) ==
    /\ tasks[p] = "running"
    /\ \E k \in Kinds :
        /\ MayAnswer(k)
        /\ Delivered(p, k)
        /\ ProcessResult(FetchPageSafe(p, k))
    /\ tasks' = [tasks EXCEPT ![p] = "done"]
    /\ completed' = Append(completed, p)
    /\ UNCHANGED <<rb_vars, run_vars, pnu_vars, retry_trace, concurrency_limit, srv_cnt, reported_cnt, fault_budget, fault_kinds,
                   caught, retry_fetched, pc, total_cnt, total_pages, idx,
                   batch_start, consumed, batch_blocked, retry_pages, retry_idx,
                   cooldowns, cooled, saves, verdict>>

\* the task of page p gets its response and finishes; as_completed queues
\* its result behind the results of the tasks that finished before it
TaskFinish(p) ==
    /\ tasks[p] = "running"
    /\ \E k \in Kinds :
        /\ MayAnswer(k)
        /\ Delivered(p, k)
    /\ tasks' = [tasks EXCEPT ![p] = "done"]
    /\ completed' = Append(completed, p)
    /\ UNCHANGED <<rb_vars, run_vars, pnu_vars, retry_trace, concurrency_limit, srv_cnt, reported_cnt, fault_budget, fault_kinds,
                   caught, retry_fetched, pc, all_auctions, successful_pages,
                   failed_pages, blocked_pages, total_cnt, total_pages, idx,
                   batch_start, consumed, batch_blocked, retry_pages, retry_idx,
                   cooldowns, cooled, saves, verdict>>

\* the CrawlResult the finished sweep task of page p holds
TaskResult(p) == FetchPageSafe(p, hist[p][1])

\* CancelPending with the cancellation left out
CancelPendingNone == tasks

\* for task in tasks: if not task.done(): task.cancel(), then the cancelled
\* tasks are awaited
CancelPending ==
    [p \in DOMAIN tasks |->
        IF p \in Range(BatchPages) /\ tasks[p] = "running"
        THEN "cancelled" ELSE tasks[p]]

\* one iteration of the as_completed loop: result = await future, then
\* _process_result, then the reaction to a Blocked result
ProcessCompleted ==
    /\ pc = "batch_wait"
    /\ consumed < Len(completed)
    /\ LET result == TaskResult(completed[consumed + 1]) IN
        /\ ProcessResult(result)
        /\ consumed' = consumed + 1
        /\ IF result.is_blocked
           THEN /\ batch_blocked' = TRUE
                /\ tasks' = CancelPending
                /\ pc' = "batch_end"
           ELSE /\ UNCHANGED <<batch_blocked, tasks>>
                /\ pc' = IF consumed + 1 = Len(BatchPages)
                         THEN "batch_end" ELSE "batch_wait"
    /\ UNCHANGED <<rb_vars, run_vars, pnu_vars, retry_trace, concurrency_limit, srv_cnt, reported_cnt, fault_budget, fault_kinds,
                   caught, retry_fetched, total_cnt, total_pages, idx,
                   batch_start, completed, retry_pages, retry_idx, hist, faults,
                   cooldowns, cooled, saves, verdict>>

\* BatchEnd with a range that never advances
BatchEndSameBatch ==
    /\ pc = "batch_end"
    /\ cooldowns' = IF batch_blocked THEN cooldowns + 1 ELSE cooldowns
    /\ cooled' = IF batch_blocked THEN cooled \cup Range(BatchPages) ELSE cooled
    /\ pc' = IF batch_start + BatchSize < Len(AllPages)
             THEN "batch_launch" ELSE "retry_start"
    /\ UNCHANGED <<rb_vars, run_vars, pnu_vars, retry_trace, concurrency_limit, srv_cnt, reported_cnt, fault_budget, fault_kinds,
                   caught, retry_fetched, all_auctions, successful_pages,
                   failed_pages, blocked_pages, total_cnt, total_pages, idx,
                   batch_start, tasks, completed, consumed, batch_blocked,
                   retry_pages, retry_idx, hist, faults, saves, verdict>>

\* a blocked batch is the last one of the sweep
AfterBatchStopsOnBlock ==
    IF ~batch_blocked /\ batch_start + BatchSize < Len(AllPages)
    THEN "batch_launch"
    ELSE "retry_start"

\* position of run() after a batch: the range of batch_start goes on to the
\* next batch, blocked or not, until pages is exhausted
AfterBatch ==
    IF batch_start + BatchSize < Len(AllPages)
    THEN "batch_launch"
    ELSE "retry_start"

\* after the as_completed loop: the cooldown of a blocked batch, the batch
\* delay, and the next batch_start of the range
BatchEnd ==
    /\ pc = "batch_end"
    /\ cooldowns' = IF batch_blocked THEN cooldowns + 1 ELSE cooldowns
    /\ cooled' = IF batch_blocked THEN cooled \cup Range(BatchPages) ELSE cooled
    /\ batch_start' = batch_start + BatchSize
    /\ pc' = AfterBatch
    /\ UNCHANGED <<rb_vars, run_vars, pnu_vars, retry_trace, concurrency_limit, srv_cnt, reported_cnt, fault_budget, fault_kinds,
                   caught, retry_fetched, all_auctions, successful_pages,
                   failed_pages, blocked_pages, total_cnt, total_pages, idx,
                   tasks, completed, consumed, batch_blocked, retry_pages,
                   retry_idx, hist, faults, saves, verdict>>

(***************************************************************************)
(* _retry_failed_pages.                                                    *)
(***************************************************************************)
\* the blocked pages ahead of the failed ones
RetryListBlockedFirst == blocked_pages \o failed_pages

\* retry_pages = self.failed_pages + self.blocked_pages
RetryList == failed_pages \o blocked_pages

\* await asyncio.sleep(seconds): seconds is times * the setting named wait
Sleep(wait, times) == [event |-> "sleep", wait |-> wait, times |-> times, page |-> 0]

\* a request of fetch_auction_page for page
Fetch(page) == [event |-> "fetch", wait |-> "none", times |-> 0, page |-> page]

\* the retry delay is slept whether or not there is a page to retry
RetryEntryAlways == <<Sleep("retry_delay", 1)>>

\* _retry_failed_pages up to its loop: if not retry_pages: return, else
\* await asyncio.sleep(retry_delay)
RetryEntry ==
    IF RetryList = <<>> THEN <<>> ELSE <<Sleep("retry_delay", 1)>>

RetryStart ==
    /\ pc = "retry_start"
    /\ retry_pages' = RetryList
    /\ retry_idx' = 0
    /\ retry_trace' = retry_trace \o RetryEntry
    /\ pc' = IF RetryList = <<>> THEN "validate" ELSE "retry"
    /\ UNCHANGED <<rb_vars, run_vars, pnu_vars, concurrency_limit, srv_cnt, reported_cnt, fault_budget, fault_kinds,
                   caught, retry_fetched, all_auctions, successful_pages,
                   failed_pages, blocked_pages, total_cnt, total_pages, idx,
                   batch_start, tasks, completed, consumed, batch_blocked, hist,
                   faults, cooldowns, cooled, saves, verdict>>

\* the collections after one retry fetch of page with outcome r
RetryAuctions(r) ==
    IF r.raised = "none" /\ Len(r.auctions) > 0
    THEN all_auctions \o r.auctions ELSE all_auctions

\* every retried page is counted as successful
RetrySuccessfulAlways(page, r) == successful_pages \cup {page}

RetrySuccessful(page, r) ==
    IF r.raised = "none" /\ Len(r.auctions) > 0
    THEN successful_pages \cup {page} ELSE successful_pages

\* a retry that yields no item records the page once more
RetryFailedAgain(page, r) ==
    IF r.raised = "none" /\ Len(r.auctions) > 0
    THEN failed_pages
    ELSE Append(failed_pages, page)

RetryFailed(page, r) == failed_pages

RetryBlocked(page, r) == blocked_pages

\* '차단' in error_str or '비정상적인 접속' in error_str, for the exception
\* a call of fetch_auction_page or get_auction_list raised
SaysBlocked(r) == r.raised \in {"blocked", "client_phrase"}

\* the sleeps and the request of one iteration of the loop over
\* retry_pages: sleep(request_delay * 2), the fetch, and after a Blocked
\* answer sleep(retry_delay * 2)
RetryIteration(page, r) ==
    <<Sleep("request_delay", 2), Fetch(page)>>
        \o (IF SaysBlocked(r) THEN <<Sleep("retry_delay", 2)>> ELSE <<>>)

\* one iteration of the loop over retry_pages
RetryPage ==
    /\ pc = "retry"
    /\ retry_idx < Len(retry_pages)
    /\ \E k \in Kinds :
        LET page == retry_pages[retry_idx + 1]
            r == FetchAuctionPage(page, k) IN
        /\ MayAnswer(k)
        /\ Delivered(page, k)
        /\ all_auctions' = RetryAuctions(r)
        /\ successful_pages' = RetrySuccessful(page, r)
        /\ failed_pages' = RetryFailed(page, r)
        /\ blocked_pages' = RetryBlocked(page, r)
        /\ retry_fetched' = Append(retry_fetched, page)
        /\ retry_trace' = retry_trace \o RetryIteration(page, r)
    /\ retry_idx' = retry_idx + 1
    /\ pc' = IF retry_idx + 1 = Len(retry_pages) THEN "validate" ELSE "retry"
    /\ UNCHANGED <<rb_vars, run_vars, pnu_vars, concurrency_limit, srv_cnt, reported_cnt, fault_budget, fault_kinds,
                   caught, total_cnt, total_pages, idx,
                   batch_start, tasks, completed, consumed, batch_blocked,
                   retry_pages, cooldowns, cooled, saves, verdict>>

(***************************************************************************)
(* _validate_and_save.                                                     *)
(***************************************************************************)
\* Verdict without the over-count branch
VerdictNoOver(actual_count, cnt) ==
    IF actual_count < cnt THEN "under" ELSE "match"

\* the comparison of actual_count with self._total_cnt and the line it logs
Verdict(actual_count, cnt) ==
    IF actual_count < cnt THEN "under"
    ELSE IF actual_count > cnt THEN "over"
    ELSE "match"

\* ValidateAndSave without the early return on an empty all_auctions
ValidateAndSaveUnguarded ==
    /\ pc = "validate"
    /\ verdict' = Verdict(Len(all_auctions), total_cnt)
    /\ saves' = Append(saves, all_auctions)
    /\ pc' = "done"
    /\ UNCHANGED <<rb_vars, run_vars, pnu_vars, retry_trace, concurrency_limit, srv_cnt, reported_cnt, fault_budget, fault_kinds,
                   caught, retry_fetched, all_auctions,
                   successful_pages, failed_pages, blocked_pages, total_cnt,
                   total_pages, idx, batch_start, tasks, completed, consumed,
                   batch_blocked, retry_pages, retry_idx, hist, faults,
                   cooldowns, cooled>>

\* save_auction_data either writes its files or logs and re-raises what the
\* writing raised; run() catches and logs that exception
ValidateAndSave ==
    /\ pc = "validate"
    /\ IF all_auctions = <<>>
       THEN /\ verdict' = "nothing"
            /\ UNCHANGED <<saves, caught>>
       ELSE /\ verdict' = Verdict(Len(all_auctions), total_cnt)
            /\ saves' = Append(saves, all_auctions)
            /\ \E save_raises \in BOOLEAN :
                 caught' = IF save_raises THEN "storage" ELSE "none"
    /\ pc' = "done"
    /\ UNCHANGED <<rb_vars, run_vars, pnu_vars, retry_trace, concurrency_limit, srv_cnt, reported_cnt, fault_budget, fault_kinds,
                   retry_fetched, all_auctions, successful_pages,
                   failed_pages, blocked_pages, total_cnt, total_pages, idx,
                   batch_start, tasks, completed, consumed, batch_blocked,
                   retry_pages, retry_idx, hist, faults, cooldowns, cooled>>

Next ==
    \/ FetchFirstPage
    \/ FetchSequential
    \/ LaunchBatch
    \/ \E p \in 2..TopPage : TaskFinish(p)
    \/ ProcessCompleted
    \/ BatchEnd
    \/ RetryStart
    \/ RetryPage
    \/ ValidateAndSave

Spec == Init /\ [][Next]_vars

(***************************************************************************)
(* The pipeline under any setting of concurrency_limit down to 0, the      *)
(* value that lifts the limit of the connection pool (fetcher.py,          *)
(* create_session).                                                        *)
(***************************************************************************)
InitAnyLimit == InitFor(Concurrencies \cup {0})

NextAnyLimit ==
    \/ Next
    \/ SchedulerError

SpecAnyLimit == InitAnyLimit /\ [][NextAnyLimit]_vars

(***************************************************************************)
(* The pipeline against a server that answers with a block phrase in a     *)
(* body that carries the page's items as well, with and without an error   *)
(* code beside it.                                                         *)
(***************************************************************************)
InitBlockedPayload ==
    /\ concurrency_limit \in Concurrencies
    /\ srv_cnt \in 0..(MaxPages * PageSize)
    /\ reported_cnt = srv_cnt
    /\ fault_budget = MaxFaults
    /\ fault_kinds = {"blocked_items", "coded_block"}
    /\ pc = "first_page"
    /\ Constructed
    /\ RbIdle
    /\ FirstRun
    /\ PnuIdle

SpecBlockedPayload == InitBlockedPayload /\ [][Next]_vars

(***************************************************************************)
(* The whole pipeline run twice against the same transport: when the first *)
(* run has returned, a second CrawlPipeline is constructed and run; the    *)
(* transport answers its requests as it answered those of the first run.   *)
(***************************************************************************)
\* page counts of the crawls that are run twice
RerunPages == 3

InitRerun ==
    /\ concurrency_limit \in Concurrencies
    /\ srv_cnt \in 0..(RerunPages * PageSize)
    /\ reported_cnt = srv_cnt
    /\ fault_budget = MaxFaults
    /\ fault_kinds = PlainFaults
    /\ pc = "first_page"
    /\ Constructed
    /\ RbIdle
    /\ FirstRun
    /\ PnuIdle

\* CrawlPipeline().run() once more, after the first run returned
Rerun ==
    /\ pc = "done"
    /\ run_no = 1
    /\ run_no' = 2
    /\ prev_hist' = hist
    /\ prev_total_pages' = total_pages
    /\ prev_auctions' = all_auctions
    /\ prev_failed' = failed_pages
    /\ prev_blocked' = blocked_pages
    /\ pc' = "first_page"
    /\ all_auctions' = <<>>
    /\ successful_pages' = {}
    /\ failed_pages' = <<>>
    /\ blocked_pages' = <<>>
    /\ total_cnt' = 0
    /\ total_pages' = -1
    /\ idx' = 0
    /\ batch_start' = 0
    /\ tasks' = [p \in 1..TopPage |-> "none"]
    /\ completed' = <<>>
    /\ consumed' = 0
    /\ batch_blocked' = FALSE
    /\ retry_pages' = <<>>
    /\ retry_idx' = 0
    /\ retry_fetched' = <<>>
    /\ retry_trace' = <<>>
    /\ hist' = [p \in 1..TopPage |-> <<>>]
    /\ faults' = 0
    /\ cooldowns' = 0
    /\ cooled' = {}
    /\ saves' = <<>>
    /\ verdict' = "none"
    /\ caught' = "none"
    /\ UNCHANGED <<rb_vars, pnu_vars, concurrency_limit, srv_cnt, reported_cnt,
                   fault_budget, fault_kinds>>

NextRerun ==
    \/ Next
    \/ Rerun

SpecRerun == InitRerun /\ [][NextRerun]_vars

(***************************************************************************)
(* run() called once more on the same CrawlPipeline object: __init__ is    *)
(* not run again, so the fields it sets keep their values, and so does     *)
(* _total_cnt; the locals of run() and of the methods it calls start anew. *)
(* The transport is free to answer the second run as it likes within the   *)
(* same listing.                                                           *)
(***************************************************************************)
RunAgain ==
    /\ pc = "done"
    /\ run_no = 1
    /\ run_no' = 2
    /\ prev_total_pages' = total_pages
    /\ prev_auctions' = all_auctions
    /\ prev_failed' = failed_pages
    /\ prev_blocked' = blocked_pages
    /\ pc' = "first_page"
    /\ total_pages' = -1
    /\ idx' = 0
    /\ batch_start' = 0
    /\ tasks' = [p \in 1..TopPage |-> "none"]
    /\ completed' = <<>>
    /\ consumed' = 0
    /\ batch_blocked' = FALSE
    /\ retry_pages' = <<>>
    /\ retry_idx' = 0
    /\ retry_fetched' = <<>>
    /\ retry_trace' = <<>>
    /\ hist' = [p \in 1..TopPage |-> <<>>]
    /\ faults' = 0
    /\ cooldowns' = 0
    /\ cooled' = {}
    /\ saves' = <<>>
    /\ verdict' = "none"
    /\ caught' = "none"
    /\ UNCHANGED <<rb_vars, pnu_vars, prev_hist, concurrency_limit, srv_cnt,
                   reported_cnt, fault_budget, fault_kinds, all_auctions,
                   successful_pages, failed_pages, blocked_pages, total_cnt>>

NextRunAgain ==
    \/ Next
    \/ RunAgain

SpecRunAgain == InitRerun /\ [][NextRunAgain]_vars

(***************************************************************************)
(* court_auction_crawler.py: the legacy main() with concurrency_limit = 1, *)
(* run after CrawlPipeline.run() has returned, against a transport that    *)
(* answers its requests as it answered those of the pipeline.  The locals  *)
(* of main() take the variables of the fields they became; what both runs  *)
(* hand to the storage step is kept in saves.                              *)
(***************************************************************************)
\* the crawls both programs are run on: sequential mode, small crawls that
\* meet every kind of answer
InitLegacy ==
    /\ concurrency_limit = 1
    /\ srv_cnt \in 0..(MaxPages * PageSize)
    /\ reported_cnt \in {srv_cnt, srv_cnt - 1} \cap Nat
    /\ fault_budget = MaxFaults
    /\ fault_kinds = Kinds \ {"ok"}
    /\ pc = "first_page"
    /\ Constructed
    /\ RbIdle
    /\ FirstRun
    /\ PnuIdle

\* main() is started after run() returned
RunLegacy ==
    /\ pc = "done"
    /\ run_no = 1
    /\ run_no' = 2
    /\ prev_hist' = hist
    /\ prev_total_pages' = total_pages
    /\ prev_auctions' = all_auctions
    /\ prev_failed' = failed_pages
    /\ prev_blocked' = blocked_pages
    /\ pc' = "main_first_page"
    /\ all_auctions' = <<>>
    /\ successful_pages' = {}
    /\ failed_pages' = <<>>
    /\ blocked_pages' = <<>>
    /\ total_cnt' = 0
    /\ total_pages' = -1
    /\ idx' = 0
    /\ retry_pages' = <<>>
    /\ retry_idx' = 0
    /\ retry_fetched' = <<>>
    /\ retry_trace' = <<>>
    /\ hist' = [p \in 1..TopPage |-> <<>>]
    /\ faults' = 0
    /\ cooldowns' = 0
    /\ cooled' = {}
    /\ verdict' = "none"
    /\ caught' = "none"
    /\ UNCHANGED <<rb_vars, pnu_vars, concurrency_limit, srv_cnt, reported_cnt,
                   fault_budget, fault_kinds, saves, batch_start, tasks,
                   completed, consumed, batch_blocked>>

\* all_auctions.extend(auctions)
MainExtend(auctions) == all_auctions \o auctions

\* main(), first page: get_auction_list(1), then either the return of the
\* except branch, or the save of the first page and the return when the
\* total count is missing, or the page count.  With total_pages > 1 the
\* block of the sweep is entered and sets successful_pages = set().
MainFirstPage ==
    /\ pc = "main_first_page"
    /\ \E k \in Kinds, has_total \in BOOLEAN :
        LET r == FetchAuctionPage(1, k)
            pages == TotalPages(reported_cnt, PageSize) IN
        /\ MayAnswer(k)
        /\ Delivered(1, k)
        /\ has_total <=> prev_total_pages >= 0
        /\ IF r.raised /= "none"
           THEN /\ pc' = "done"
                /\ UNCHANGED <<all_auctions, successful_pages, total_cnt,
                               total_pages, saves>>
           ELSE IF ~has_total
           THEN /\ pc' = "done"
                /\ saves' = IF Len(r.auctions) > 0
                            THEN Append(saves, r.auctions)
                            ELSE saves
                /\ UNCHANGED <<all_auctions, successful_pages, total_cnt,
                               total_pages>>
           ELSE /\ total_cnt' = reported_cnt
                /\ total_pages' = pages
                /\ all_auctions' = r.auctions
                /\ successful_pages' = IF pages > 1 THEN {} ELSE {1}
                /\ pc' = IF pages > 1 THEN "main_sequential" ELSE "main_validate"
                /\ UNCHANGED saves
    /\ UNCHANGED <<rb_vars, run_vars, pnu_vars, retry_trace, concurrency_limit,
                   srv_cnt, reported_cnt, fault_budget, fault_kinds, caught,
                   retry_fetched, failed_pages, blocked_pages, idx,
                   batch_start, tasks, completed, consumed, batch_blocked,
                   retry_pages, retry_idx, cooldowns, cooled, verdict>>

\* main(), one iteration of the sequential loop: items are appended and the
\* page counted successful; no item, or an exception without block phrase,
\* puts the page into failed_pages; a block exception puts it into
\* blocked_pages and sleeps blocked_wait_time
MainSequential ==
    /\ pc = "main_sequential"
    /\ idx < Len(AllPages)
    /\ \E k \in Kinds :
        LET page_num == AllPages[idx + 1]
            r == FetchAuctionPage(page_num, k) IN
        /\ MayAnswer(k)
        /\ Delivered(page_num, k)
        /\ IF r.raised = "none" /\ Len(r.auctions) > 0
           THEN /\ all_auctions' = MainExtend(r.auctions)
                /\ successful_pages' = successful_pages \cup {page_num}
                /\ UNCHANGED <<failed_pages, blocked_pages, cooldowns, cooled>>
           ELSE IF SaysBlocked(r)
           THEN /\ blocked_pages' = Append(blocked_pages, page_num)
                /\ cooldowns' = cooldowns + 1
                /\ cooled' = cooled \cup {page_num}
                /\ UNCHANGED <<all_auctions, successful_pages, failed_pages>>
           ELSE /\ failed_pages' = Append(failed_pages, page_num)
                /\ UNCHANGED <<all_auctions, successful_pages, blocked_pages,
                               cooldowns, cooled>>
    /\ idx' = idx + 1
    /\ pc' = IF idx + 1 = Len(AllPages) THEN "main_retry_start" ELSE "main_sequential"
    /\ UNCHANGED <<rb_vars, run_vars, pnu_vars, retry_trace, concurrency_limit,
                   srv_cnt, reported_cnt, fault_budget, fault_kinds, caught,
                   retry_fetched, total_cnt, total_pages, batch_start, tasks,
                   completed, consumed, batch_blocked, retry_pages, retry_idx,
                   saves, verdict>>

\* main(): retry_pages = failed_pages + blocked_pages; if retry_pages:
\* sleep(retry_delay)
MainRetryStart ==
    /\ pc = "main_retry_start"
    /\ retry_pages' = failed_pages \o blocked_pages
    /\ retry_idx' = 0
    /\ retry_trace' = IF failed_pages \o blocked_pages = <<>>
                      THEN retry_trace
                      ELSE Append(retry_trace, Sleep("retry_delay", 1))
    /\ pc' = IF failed_pages \o blocked_pages = <<>>
             THEN "main_validate" ELSE "main_retry"
    /\ UNCHANGED <<rb_vars, run_vars, pnu_vars, concurrency_limit, srv_cnt,
                   reported_cnt, fault_budget, fault_kinds, caught,
                   retry_fetched, all_auctions, successful_pages,
                   failed_pages, blocked_pages, total_cnt, total_pages, idx,
                   batch_start, tasks, completed, consumed, batch_blocked, hist,
                   faults, cooldowns, cooled, saves, verdict>>

\* main(), one iteration of the loop over retry_pages
MainRetryPage ==
    /\ pc = "main_retry"
    /\ retry_idx < Len(retry_pages)
    /\ \E k \in Kinds :
        LET page == retry_pages[retry_idx + 1]
            r == FetchAuctionPage(page, k) IN
        /\ MayAnswer(k)
        /\ Delivered(page, k)
        /\ IF r.raised = "none" /\ Len(r.auctions) > 0
           THEN /\ all_auctions' = MainExtend(r.auctions)
                /\ successful_pages' = successful_pages \cup {page}
           ELSE UNCHANGED <<all_auctions, successful_pages>>
        /\ retry_fetched' = Append(retry_fetched, page)
        /\ retry_trace' = retry_trace
               \o <<Sleep("request_delay", 2), Fetch(page)>>
               \o (IF SaysBlocked(r)
                   THEN <<Sleep("retry_delay", 2)>> ELSE <<>>)
    /\ retry_idx' = retry_idx + 1
    /\ pc' = IF retry_idx + 1 = Len(retry_pages) THEN "main_validate" ELSE "main_retry"
    /\ UNCHANGED <<rb_vars, run_vars, pnu_vars, concurrency_limit, srv_cnt,
                   reported_cnt, fault_budget, fault_kinds, caught,
                   failed_pages, blocked_pages, total_cnt, total_pages, idx,
                   batch_start, tasks, completed, consumed, batch_blocked,
                   retry_pages, cooldowns, cooled, saves, verdict>>

\* main(): the return on an empty all_auctions, else the comparison with
\* total_cnt and save_to_excel(all_auctions), whose exception the outer
\* handler of main() catches and logs
MainValidate ==
    /\ pc = "main_validate"
    /\ IF all_auctions = <<>>
       THEN /\ verdict' = "nothing"
            /\ UNCHANGED <<saves, caught>>
       ELSE /\ verdict' = IF Len(all_auctions) < total_cnt THEN "under"
                          ELSE IF Len(all_auctions) > total_cnt THEN "over"
                          ELSE "match"
            /\ saves' = Append(saves, all_auctions)
            /\ \E save_raises \in BOOLEAN :
                 caught' = IF save_raises THEN "storage" ELSE "none"
    /\ pc' = "done"
    /\ UNCHANGED <<rb_vars, run_vars, pnu_vars, retry_trace, concurrency_limit,
                   srv_cnt, reported_cnt, fault_budget, fault_kinds,
                   retry_fetched, all_auctions, successful_pages,
                   failed_pages, blocked_pages, total_cnt, total_pages, idx,
                   batch_start, tasks, completed, consumed, batch_blocked,
                   retry_pages, retry_idx, hist, faults, cooldowns, cooled>>

NextLegacy ==
    \/ FetchFirstPage
    \/ FetchSequential
    \/ RetryStart
    \/ RetryPage
    \/ ValidateAndSave
    \/ RunLegacy
    \/ MainFirstPage
    \/ MainSequential
    \/ MainRetryStart
    \/ MainRetryPage
    \/ MainValidate

SpecLegacy == InitLegacy /\ [][NextLegacy]_vars

(***************************************************************************)
(* retry_with_backoff (utils.py): one call of a decorated function func    *)
(* that raises on its first rb_fail_first calls and returns afterwards.    *)
(***************************************************************************)
\* exception classes func raises
ErrorKinds == {"TimeoutError", "ClientError"}

\* no pipeline runs beside the call
NoPipeline ==
    /\ concurrency_limit = 1
    /\ srv_cnt = 0
    /\ reported_cnt = 0
    /\ fault_budget = 0
    /\ fault_kinds = {}
    /\ pc = "idle"
    /\ Constructed
    /\ FirstRun

\* wrapper is entered: current_retries, current_delay and max_delay are the
\* decorator's arguments, last_exception = None
RbInit ==
    /\ NoPipeline
    /\ PnuIdle
    /\ rb_pc = "call"
    /\ rb_max_retries \in 0..RbMaxRetries
    /\ rb_base_delay \in 1..RbMaxBase
    /\ rb_max_delay \in 1..RbMaxCap
    /\ rb_fail_first \in 0..(RbMaxRetries + 2)
    /\ rb_attempt = 0
    /\ rb_last_exception = <<>>
    /\ rb_trace = <<>>
    /\ rb_outcome = <<>>

\* number of calls of func made so far
CallsMade == Cardinality({i \in DOMAIN rb_trace : rb_trace[i][1] = "call"})

\* the last attempt is one earlier
LastAttemptEarly == rb_attempt + 1 >= rb_max_retries

\* if attempt == current_retries
LastAttempt == rb_attempt = rb_max_retries

\* an exception of wrapper's own is raised
RaiseOwn(last_exception) == [kind |-> "Exception", call |-> 0]

\* raise last_exception
RaiseLast(last_exception) == last_exception

\* the delay without the cap
DelayUncapped(attempt) == rb_base_delay * 2 ^ attempt

\* delay = min(current_delay * (2 ** attempt), max_delay)
Delay(attempt) == Min(rb_base_delay * 2 ^ attempt, rb_max_delay)

\* one iteration of the for loop up to its return, its raise or its sleep:
\* func is called; its n-th call raises an exception that carries n
RbAttempt ==
    /\ rb_pc = "call"
    /\ rb_attempt <= rb_max_retries
    /\ LET n == CallsMade + 1 IN
        IF n > rb_fail_first
        THEN /\ rb_trace' = Append(rb_trace, <<"call", n, "ok">>)
             /\ rb_outcome' = <<"returned", n>>
             /\ rb_pc' = "returned"
             /\ UNCHANGED rb_last_exception
        ELSE \E kind \in ErrorKinds :
             LET e == [kind |-> kind, call |-> n] IN
             /\ rb_trace' = Append(rb_trace, <<"call", n, kind>>)
             /\ rb_last_exception' = <<e>>
             /\ IF LastAttempt
                THEN /\ rb_outcome' = <<"raised", RaiseLast(e)>>
                     /\ rb_pc' = "raised"
                ELSE /\ rb_pc' = "sleep"
                     /\ UNCHANGED rb_outcome
    /\ UNCHANGED <<pipeline_vars, run_vars, pnu_vars, rb_max_retries, rb_base_delay, rb_max_delay,
                   rb_fail_first, rb_attempt>>

\* await asyncio.sleep(delay), then the next value of attempt
RbSleep ==
    /\ rb_pc = "sleep"
    /\ rb_trace' = Append(rb_trace, <<"sleep", Delay(rb_attempt)>>)
    /\ rb_attempt' = rb_attempt + 1
    /\ rb_pc' = "call"
    /\ UNCHANGED <<pipeline_vars, run_vars, pnu_vars, rb_max_retries, rb_base_delay, rb_max_delay,
                   rb_fail_first, rb_last_exception, rb_outcome>>

RbNext ==
    \/ RbAttempt
    \/ RbSleep

RetrySpec == RbInit /\ [][RbNext]_vars

(***************************************************************************)
(* pnu_generator.py: PNUGenerator.create_pnu and process_batch.  A Python  *)
(* str is the sequence of its characters, each a one-character string; the *)
(* token "san" stands for the one Hangul syllable U+C0B0 that marks a      *)
(* mountain lot.                                                           *)
(***************************************************************************)
\* the characters str.isdigit accepts among those the inputs are made of
Digits == {"0", "1", "2", "3", "4", "5", "6", "7", "8", "9"}

\* the Python value None; no str equals it
None == <<"None">>

\* str(x)
Str(x) == IF x = None THEN <<"N", "o", "n", "e">> ELSE x

\* s.isdigit(): false for the empty str
IsDigit(s) == Len(s) > 0 /\ \A i \in 1..Len(s) : s[i] \in Digits

\* s.zfill(width) for a str without sign: zeros on the left up to width,
\* a longer str is returned as it is
ZFill(s, width) ==
    IF Len(s) >= width THEN s ELSE [i \in 1..(width - Len(s)) |-> "0"] \o s

RECURSIVE LStrip(_)
LStrip(s) == IF s /= <<>> /\ Head(s) = " " THEN LStrip(Tail(s)) ELSE s

RECURSIVE RStrip(_)
RStrip(s) ==
    IF s /= <<>> /\ s[Len(s)] = " " THEN RStrip(SubSeq(s, 1, Len(s) - 1)) ELSE s

\* s.strip()
Strip(s) == RStrip(LStrip(s))

\* s.split(sep) for a one-character sep: empty pieces are kept
RECURSIVE Split(_, _)
Split(s, sep) ==
    IF \E i \in 1..Len(s) : s[i] = sep
    THEN LET i == CHOOSE j \in 1..Len(s) :
                      s[j] = sep /\ \A k \in 1..(j - 1) : s[k] /= sep
         IN  <<SubSeq(s, 1, i - 1)>> \o Split(SubSeq(s, i + 1, Len(s)), sep)
    ELSE <<s>>

\* ''.join(filter(str.isdigit, s))
DigitsOf(s) == SelectSeq(s, LAMBDA ch : ch \in Digits)

\* [num.strip() for num in daepyoLotno.split('^') if num.strip()]
LotNumbers(daepyoLotno) ==
    LET pieces == Split(daepyoLotno, "^")
        stripped == [i \in 1..Len(pieces) |-> Strip(pieces[i])]
    IN  SelectSeq(stripped, LAMBDA num : num /= <<>>)

\* every lot is typed as a plain lot
LandTypePlain(lot_number) == "1"

\* land_type = "2" if the mountain mark is in lot_number else "1"
LandType(lot_number) ==
    IF \E i \in 1..Len(lot_number) : lot_number[i] = "san" THEN "2" ELSE "1"

\* number.zfill(4)[:4]
FourDigits(number) == SubSeq(ZFill(number, 4), 1, 4)

\* one iteration of the loop over lot_numbers: the list of the PNUs it
\* appends to pnu_list, empty when the iteration continues without one
LotPnus(pnu_prefix, lot_number) ==
    LET land_type == LandType(lot_number)
        lot_number_clean == SelectSeq(lot_number, LAMBDA ch : ch /= "san")
        parts == Split(lot_number_clean, "-")
        main_number == DigitsOf(parts[1])
        sub_digits == IF Len(parts) > 1 THEN DigitsOf(parts[2]) ELSE <<>>
        sub_number == IF sub_digits = <<>>
                      THEN <<"0", "0", "0", "0">>
                      ELSE FourDigits(sub_digits)
        pnu == pnu_prefix \o <<land_type>> \o FourDigits(main_number)
                   \o sub_number
    IN  IF Len(parts) > 2 \/ main_number = <<>>
        THEN <<>>
        ELSE IF Len(pnu) = 19 /\ IsDigit(pnu) THEN <<pnu>> ELSE <<>>

RECURSIVE PnuList(_, _)
PnuList(pnu_prefix, lot_numbers) ==
    IF lot_numbers = <<>>
    THEN <<>>
    ELSE LotPnus(pnu_prefix, Head(lot_numbers))
             \o PnuList(pnu_prefix, Tail(lot_numbers))

\* pnu_prefix: the four codes, each through str and zfill
PnuPrefix(daepyoSidoCd, daepyoSiguCd, daepyoDongCd, daepyoRdCd) ==
    ZFill(Str(daepyoSidoCd), 2) \o ZFill(Str(daepyoSiguCd), 3)
        \o ZFill(Str(daepyoDongCd), 3) \o ZFill(Str(daepyoRdCd), 2)

\* PNUGenerator.create_pnu
create_pnu(daepyoSidoCd, daepyoSiguCd, daepyoDongCd, daepyoRdCd, daepyoLotno) ==
    LET pnu_prefix == PnuPrefix(daepyoSidoCd, daepyoSiguCd, daepyoDongCd,
                                daepyoRdCd)
        lot_numbers == LotNumbers(Strip(Str(daepyoLotno)))
        pnu_list == PnuList(pnu_prefix, lot_numbers)
    IN  IF Len(pnu_prefix) /= 10 \/ ~IsDigit(pnu_prefix)
        THEN <<None>>
        ELSE IF lot_numbers = <<>>
             THEN <<None>>
             ELSE IF pnu_list /= <<>> THEN pnu_list ELSE <<None>>

\* get_land_use_info(pnu, session) as gather hands it back: the dict of a
\* lookup that found land uses, the dict of a lookup that ended in an API
\* error, or the exception a lookup raised
LookupKinds == {"found", "api_error", "raised"}

LookupResult(pnu, kind) ==
    [raised |-> kind = "raised",
     pnu |-> pnu,
     land_use |-> IF kind = "found" THEN <<"use of", pnu>> ELSE None,
     error |-> IF kind = "found" THEN "none" ELSE kind]

\* the codes the rows carry: sido codes of one and two digits and one with a
\* letter, sigu codes of two and three digits, ri codes absent, short and full
SidoCodes == {<<"1">>, <<"1", "1">>, <<"A", "1">>}
SiguCodes == {<<"1", "1", "0">>, <<"1", "0">>}
DongCodes == {<<"1", "0", "1">>}
RdCodes == {None, <<"0", "0">>, <<"0">>}

\* lot numbers as the listing writes them: main or main-sub, a mountain lot
\* marked in front
MainNumbers == {<<"7">>, <<"1", "2", "3", "4", "5">>}
SubNumbers == {<<>>, <<"4", "5">>}
Lots == [san : BOOLEAN, main : MainNumbers, sub : SubNumbers]

LotText(lot) ==
    (IF lot.san THEN <<"san">> ELSE <<>>) \o lot.main
        \o (IF lot.sub /= <<>> THEN <<"-">> \o lot.sub ELSE <<>>)

\* largest number of lot numbers in one daepyoLotno
MaxLots == 2

\* largest number of rows of df
MaxRows == 3

LotLists == UNION {[1..n -> Lots] : n \in 1..MaxLots}

\* '^'.join of the lot numbers
RECURSIVE JoinLots(_)
JoinLots(lots) ==
    IF Len(lots) = 1
    THEN LotText(lots[1])
    ELSE LotText(lots[1]) \o <<"^">> \o JoinLots(Tail(lots))

\* daepyoLotno values no lot number can be read from, or only some
OddLotnos ==
    {<<>>, <<" ">>, <<"a", "b">>, <<"1", "-", "2", "-", "3">>,
     <<"1", "-", "2", "-", "3", "^", "5">>, <<" ", "7", " ", "^", " ", "8">>}

Lotnos == {JoinLots(lots) : lots \in LotLists} \cup OddLotnos

Rows ==
    [daepyoSidoCd : SidoCodes, daepyoSiguCd : SiguCodes,
     daepyoDongCd : DongCodes, daepyoRdCd : RdCodes, daepyoLotno : Lotnos]

Row(sido, lotno) ==
    [daepyoSidoCd |-> sido, daepyoSiguCd |-> <<"1", "1", "0">>,
     daepyoDongCd |-> <<"1", "0", "1">>, daepyoRdCd |-> <<"0", "0">>,
     daepyoLotno |-> lotno]

\* the rows of the frames of several rows: a row of one lot, a row of two
\* lots, a row whose sido code has a letter
BatchRows ==
    {Row(<<"1", "1">>, <<"7">>),
     Row(<<"1", "1">>, <<"san", "7", "-", "4", "5", "^", "8">>),
     Row(<<"A", "1">>, <<"7">>)}

\* process_batch(generator, df, start_idx, batch_size) is entered: a frame
\* of one row of any content with the batch over it, or a frame of several
\* rows and any batch within it
PnuInit ==
    /\ NoPipeline
    /\ RbIdle
    /\ pnu_pc = "create"
    /\ \/ /\ df \in [1..1 -> Rows]
          /\ start_idx = 0
          /\ batch_size = 1
       \/ /\ df \in UNION {[1..n -> BatchRows] : n \in 2..MaxRows}
          /\ start_idx \in 0..1
          /\ batch_size \in 1..MaxRows
    /\ row_pnus = <<>>
    /\ batch_pnus = <<>>
    /\ original_indices = <<>>
    /\ results = <<>>
    /\ batch_results = <<>>

\* batch_df = df.iloc[start_idx:end_idx]
BatchDf == Slice(df, start_idx, Min(start_idx + batch_size, Len(df)))

\* flattening of a list of lists
RECURSIVE Concat(_)
Concat(lists) ==
    IF lists = <<>> THEN <<>> ELSE Head(lists) \o Concat(Tail(lists))

\* the loop over batch_df.iterrows(): create_pnu of each row, batch_pnus
\* extended by its list, original_indices by the row's index once per PNU.
\* The index of a row is its position in df, counted from 0.
BatchCreate ==
    /\ pnu_pc = "create"
    /\ LET pnus == [i \in 1..Len(BatchDf) |->
                       create_pnu(BatchDf[i].daepyoSidoCd,
                                  BatchDf[i].daepyoSiguCd,
                                  BatchDf[i].daepyoDongCd,
                                  BatchDf[i].daepyoRdCd,
                                  BatchDf[i].daepyoLotno)]
       IN  /\ row_pnus' = pnus
           /\ batch_pnus' = Concat(pnus)
           /\ original_indices' =
                  Concat([i \in 1..Len(pnus) |->
                             [j \in 1..Len(pnus[i]) |-> start_idx + i - 1]])
    /\ pnu_pc' = "gather"
    /\ UNCHANGED <<pipeline_vars, rb_vars, run_vars, df, start_idx, batch_size,
                   results, batch_results>>

\* if pnu: of Python
Truthy(pnu) == pnu /= None /\ pnu /= <<>>

\* the PNUs a task is made for, in the order of batch_pnus
Requested == SelectSeq(batch_pnus, Truthy)

\* results = await asyncio.gather(*tasks, return_exceptions=True): one
\* result per task, in the order of tasks
Gather ==
    /\ pnu_pc = "gather"
    /\ \E kinds \in [1..Len(Requested) -> LookupKinds] :
           results' = [i \in 1..Len(Requested) |->
                          LookupResult(Requested[i], kinds[i])]
    /\ pnu_pc' = "collect"
    /\ UNCHANGED <<pipeline_vars, rb_vars, run_vars, df, start_idx, batch_size,
                   row_pnus, batch_pnus, original_indices, batch_results>>

\* the entry the loop over the zip appends for one triple
BatchEntry(pnu, result, original_idx) ==
    IF ~Truthy(pnu)
    THEN [original_index |-> original_idx, pnu |-> None, land_use |-> None,
          error |-> "pnu"]
    ELSE IF result.raised
         THEN [original_index |-> original_idx, pnu |-> pnu,
               land_use |-> None, error |-> result.error]
         ELSE [original_index |-> original_idx, pnu |-> result.pnu,
               land_use |-> result.land_use, error |-> result.error]

\* the number of triples zip(batch_pnus, results, original_indices) yields
ZipLen == Min(Len(batch_pnus), Min(Len(results), Len(original_indices)))

\* for pnu, result, original_idx in zip(...): batch_results.append(...),
\* then return batch_results
Collect ==
    /\ pnu_pc = "collect"
    /\ batch_results' =
           [i \in 1..ZipLen |->
               BatchEntry(batch_pnus[i], results[i], original_indices[i])]
    /\ pnu_pc' = "returned"
    /\ UNCHANGED <<pipeline_vars, rb_vars, run_vars, df, start_idx, batch_size,
                   row_pnus, batch_pnus, original_indices, results>>

PnuNext ==
    \/ BatchCreate
    \/ Gather
    \/ Collect

PnuSpec == PnuInit /\ [][PnuNext]_vars

(***************************************************************************)
(* Vocabulary of the properties.                                           *)
(***************************************************************************)
Done == pc = "done"

\* the orchestrator is in the main sweep or between the sweep and the retry pass
InSweep == pc \in {"sequential", "batch_launch", "batch_wait", "batch_end",
                   "retry_start"}

SweepPages == 2..TopPage

\* the batch that holds page p is over: its as_completed loop and the waits
\* that follow it have ended
BatchOver(p) == ~(pc \in {"batch_wait", "batch_end"} /\ p \in Range(BatchPages))

\* the items of page p that all_auctions holds
ItemsFrom(p) == {i \in 1..Len(all_auctions) : all_auctions[i][1] = p}

\* every response delivered so far is the one transport T gives:
\* T[p][n] is the kind of the n-th response to a request of page p
ConsistentWith(T) ==
    \A p \in 1..TopPage : \A n \in 1..Len(hist[p]) : hist[p][n] = T[p][n]

(***************************************************************************)
(* C1.  When run() completes after page 1 yielded a total count, every     *)
(* page 1..total_pages is in successful_pages, failed_pages or             *)
(* blocked_pages, cancelled and unprocessed pages of a blocked batch       *)
(* included.                                                               *)
(***************************************************************************)
C1_EveryPageAccounted ==
    (Done /\ total_pages >= 1) =>
        \A p \in 1..total_pages :
            p \in successful_pages \cup Range(failed_pages) \cup Range(blocked_pages)

(***************************************************************************)
(* C2.  When run() completes, successful_pages, failed_pages and           *)
(* blocked_pages are pairwise disjoint: a page that succeeds in the retry  *)
(* pass is no longer in failed_pages or blocked_pages.                     *)
(***************************************************************************)
C2_PairwiseDisjoint ==
    Done =>
        /\ successful_pages \cap Range(failed_pages) = {}
        /\ successful_pages \cap Range(blocked_pages) = {}
        /\ Range(failed_pages) \cap Range(blocked_pages) = {}

(***************************************************************************)
(* C3.  In batched mode every page whose fetch task was cancelled because  *)
(* another task of its batch reported Blocked is treated as a failed page  *)
(* and is fetched again in the retry pass.                                 *)
(***************************************************************************)
C3_CancelledPagesRetried ==
    Done =>
        \A p \in SweepPages :
            tasks[p] = "cancelled" =>
                /\ p \in Range(failed_pages)
                /\ \E i \in 1..retry_idx : retry_pages[i] = p

(***************************************************************************)
(* C4.  During the main sweep a page whose fetch fails with a transport    *)
(* error is attempted max_retries further times, and its number is in      *)
(* failed_pages only after all max_retries + 1 attempts have failed.       *)
(***************************************************************************)
C4_InlineRetryBeforeFailed ==
    InSweep =>
        \A p \in SweepPages :
            (p \in Range(failed_pages) /\ hist[p][1] = "err") =>
                /\ Len(hist[p]) = max_retries + 1
                /\ \A n \in 1..Len(hist[p]) : hist[p][n] = "err"

(***************************************************************************)
(* C5.  End to end, max_retries >= 2: a 3-page crawl (total count 100,     *)
(* page size 40, here 5 and 2) in which page 2 fails its first two         *)
(* attempts with a transport error and answers the third, and pages 1 and  *)
(* 3 answer at once, ends with every item in all_auctions,                 *)
(* successful_pages = {1,2,3} and a clean match reported.                  *)
(***************************************************************************)
TransportC5 ==
    [p \in 1..TopPage |-> [n \in 1..(max_retries + 1) |->
        IF p = 2 /\ n <= 2 THEN "err" ELSE "ok"]]

C5_FailTwiceThenSucceed ==
    (/\ Done
     /\ max_retries >= 2
     /\ srv_cnt = 2 * PageSize + 1
     /\ total_pages = 3
     /\ hist[1] = <<"ok">>
     /\ ConsistentWith(TransportC5)) =>
        /\ Len(all_auctions) = srv_cnt
        /\ successful_pages = {1, 2, 3}
        /\ verdict = "match"

(***************************************************************************)
(* C6.  In the main sweep, in either mode, a page fetch that ends Blocked  *)
(* is not attempted again inline, its page is in blocked_pages, and a      *)
(* cooldown wait takes place before any later page is fetched (sequential) *)
(* or any later batch is launched (batched).                               *)
(***************************************************************************)
\* the sweep fetch of page p has ended, and ended Blocked
SweepBlocked(p) ==
    /\ Len(hist[p]) >= 1
    /\ hist[p][1] = "blocked"
    /\ concurrency_limit /= 1 => tasks[p] = "done"

C6_BlockedRecordedAndCooled ==
    \A p \in SweepPages :
        (SweepBlocked(p) /\ BatchOver(p)) =>
            /\ InSweep => Len(hist[p]) = 1
            /\ p \in Range(blocked_pages)
            /\ p \in cooled

(***************************************************************************)
(* C7.  In batched mode a page whose fetch finished successfully before    *)
(* the Blocked result of its batch was processed has its items in          *)
(* all_auctions and its number in successful_pages when the batch ends,    *)
(* whatever the order in which the tasks of the batch finished.            *)
(***************************************************************************)
C7_FinishedPagesKeepItems ==
    \A p \in SweepPages :
        (/\ concurrency_limit /= 1
         /\ tasks[p] = "done"
         /\ hist[p][1] = "ok"
         /\ ServerCount(p) > 0
         /\ (pc = "batch_end" \/ BatchOver(p))) =>
            /\ p \in successful_pages
            /\ Cardinality(ItemsFrom(p)) = ServerCount(p)

(***************************************************************************)
(* C8.  In batched mode, when a Blocked result of a batch is processed,    *)
(* every task of that batch that has not finished is cancelled; no         *)
(* cancelled task ever adds items to all_auctions or its page to           *)
(* successful_pages; tasks of other batches are never cancelled.           *)
(***************************************************************************)
\* no task is in flight outside the as_completed loop of its own batch, and
\* none survives the processing of a Blocked result
C8_NoneInFlightAfterBlock ==
    \A p \in SweepPages :
        tasks[p] = "running" =>
            /\ pc = "batch_wait"
            /\ p \in Range(BatchPages)
            /\ ~batch_blocked

\* a cancelled task delivered nothing
C8_CancelledContributeNothing ==
    \A p \in SweepPages :
        tasks[p] = "cancelled" =>
            /\ p \notin Range(completed)
            /\ p \notin successful_pages
            /\ ItemsFrom(p) = {}

\* a step cancels only unfinished tasks of the batch being awaited, and only
\* when it processes a Blocked result
C8_CancelStep ==
    \A p \in SweepPages :
        (tasks[p] /= "cancelled" /\ tasks'[p] = "cancelled") =>
            /\ tasks[p] = "running"
            /\ p \in Range(BatchPages)
            /\ batch_start' = batch_start
            /\ Len(blocked_pages') = Len(blocked_pages) + 1
            /\ \A q \in Range(BatchPages) : tasks'[q] /= "running"

\* C8: a Blocked result cancels every unfinished task of its batch and only
\* those, and a cancelled task contributes neither items nor a successful page
C8_CancelOnBlock ==
    /\ [](C8_NoneInFlightAfterBlock /\ C8_CancelledContributeNothing)
    /\ [][C8_CancelStep]_vars

\* a large crawl ended after a block cancelled a task of its first batch and
\* its second batch ran
C8_Witness ==
    /\ Done
    /\ \E p \in SweepPages : tasks[p] = "cancelled"
    /\ tasks[LargePages] = "done"
    /\ LargePages \in successful_pages

(***************************************************************************)
(* C9.  For every concurrency_limit >= 1: in a 3-page crawl where pages 1  *)
(* and 3 return items and page 2 is Blocked in the sweep and in the retry  *)
(* pass, the run ends with exactly the items of pages 1 and 3 in           *)
(* all_auctions, blocked_pages = [2], page 2 not successful, and save      *)
(* invoked with exactly those items.                                       *)
(***************************************************************************)
TransportC9 ==
    [p \in 1..TopPage |-> [n \in 1..(max_retries + 1) |->
        IF p = 2 THEN "blocked" ELSE "ok"]]

C9_BlockedTwice ==
    (/\ Done
     /\ concurrency_limit >= 1
     /\ total_pages = 3
     /\ hist[1] = <<"ok">>
     /\ ConsistentWith(TransportC9)) =>
        /\ Range(all_auctions) = Range(ServerItems(1)) \cup Range(ServerItems(3))
        /\ Len(all_auctions) = ServerCount(1) + ServerCount(3)
        /\ blocked_pages = <<2>>
        /\ 2 \notin successful_pages
        /\ saves = <<all_auctions>>

C11_CaughtErrorStillSaves ==
    (Done /\ caught /= "none" /\ all_auctions /= <<>>) =>
        /\ saves /= <<>>
        /\ saves[Len(saves)] = all_auctions

(***************************************************************************)
(* C12.  After the sweep and the retry pass, with a non-empty              *)
(* all_auctions, save is invoked with all_auctions whatever the comparison *)
(* with the expected total gives, and the outcome reported is the clean    *)
(* match exactly when the two are equal, the under-count exactly when      *)
(* fewer items were gathered, the over-count exactly when more were.       *)
(***************************************************************************)
C12_SavedWhateverVerdict ==
    (Done /\ total_pages >= 0 /\ all_auctions /= <<>>) =>
        /\ saves = <<all_auctions>>
        /\ verdict = "match" <=> Len(all_auctions) = total_cnt
        /\ verdict = "under" <=> Len(all_auctions) < total_cnt
        /\ verdict = "over" <=> Len(all_auctions) > total_cnt

\* a run gathered more items than page 1 announced and saved them
C12_Witness ==
    /\ Done
    /\ Len(all_auctions) > total_cnt
    /\ total_cnt > 0
    /\ verdict = "over"
    /\ saves = <<all_auctions>>

(***************************************************************************)
(* C13.  Every fetch returning or failing in finite time, run() terminates *)
(* for every combination of per-page outcomes, in both modes: the sweep,   *)
(* the retry pass and the waits are bounded and no page is attempted an    *)
(* unbounded number of times.  Stated so that a finite run refutes it: a   *)
(* run that has not returned can always take a step, every step lowers a   *)
(* natural-number bound on the steps left, and no page is requested more   *)
(* than twice.                                                             *)
(***************************************************************************)
\* len(all_pages), the number of pages of the sweep
NumSweepPages == IF total_pages > 1 THEN total_pages - 1 ELSE 0

\* len(batch_pages) of the batch under way
NumBatchPages == Min(BatchSize, NumSweepPages - batch_start)

\* steps the batch under way can still take: its BatchEnd, and for each task
\* its finish, the processing of its result and the retry that may follow
BatchWorkLeft ==
    IF pc = "batch_wait"
    THEN 1 + 3 * (NumBatchPages - Len(completed))
           + 2 * (Len(completed) - consumed)
    ELSE IF pc = "batch_end" THEN 1
    ELSE 0

\* sweep pages no task was created for yet
Unlaunched ==
    IF pc = "batch_launch" THEN NumSweepPages - batch_start
    ELSE NumSweepPages - batch_start - NumBatchPages

\* a bound on the number of steps run() can still take
StepsLeft ==
    IF pc = "done" THEN 0
    ELSE IF pc = "validate" THEN 1
    ELSE IF pc = "retry" THEN 1 + Len(retry_pages) - retry_idx
    ELSE IF pc = "retry_start" THEN 2 + Len(failed_pages) + Len(blocked_pages)
    ELSE IF pc = "sequential"
    THEN 2 + Len(failed_pages) + Len(blocked_pages) + 2 * (NumSweepPages - idx)
    ELSE IF pc = "first_page" THEN 3 + 5 * TopPage
    ELSE 2 + Len(failed_pages) + Len(blocked_pages) + 5 * Unlaunched
           + BatchWorkLeft

\* run() can take a step: the guards of the actions of Next, by position
CanStep ==
    \/ pc \in {"first_page", "batch_end", "retry_start", "validate"}
    \/ pc = "sequential" /\ idx < NumSweepPages
    \/ pc = "batch_launch" /\ BatchSize /= 0
    \/ pc = "batch_wait" /\ (\/ consumed < Len(completed)
                              \/ Len(completed) < NumBatchPages)
    \/ pc = "retry" /\ retry_idx < Len(retry_pages)

\* C13: run() terminates whatever the pages answer, and requests no page
\* more than twice
C13_Terminates ==
    /\ [](Done \/ CanStep)
    /\ [](StepsLeft \in Nat)
    /\ [][StepsLeft' < StepsLeft]_vars
    /\ [](\A p \in 1..TopPage : Len(hist[p]) <= 2)

\* a run returned after a batch was cut short by a Blocked result, a task
\* was cancelled, and the retry pass fetched again
C13_Witness ==
    /\ Done
    /\ \E p \in SweepPages : tasks[p] = "cancelled"
    /\ blocked_pages /= <<>>
    /\ failed_pages /= <<>>
    /\ retry_idx = Len(retry_pages)
    /\ retry_idx >= 2

(***************************************************************************)
(* C14.  If the response of page 1 carries no total count, run() persists  *)
(* the items page 1 returned (save is invoked with exactly those items),   *)
(* attempts no other page, in the sweep or in the retry pass, and          *)
(* terminates.                                                             *)
(***************************************************************************)
\* page 1 was answered by a well-formed response without a total count
NoTotalAnswered ==
    /\ Len(hist[1]) = 1
    /\ hist[1][1] \in {"ok", "empty"}
    /\ total_pages = -1

\* the items that response carried
FirstPageItems == FetchAuctionPage(1, hist[1][1]).auctions

\* no request but that of page 1 was made
OnlyPageOneAttempted ==
    /\ \A p \in SweepPages : hist[p] = <<>> /\ tasks[p] = "none"
    /\ idx = 0
    /\ retry_fetched = <<>>

C14_NoTotalSavesPageOne ==
    NoTotalAnswered =>
        /\ Done
        /\ saves = <<FirstPageItems>>
        /\ OnlyPageOneAttempted

(***************************************************************************)
(* C14, amended.  If the response of page 1 carries no total count, run()  *)
(* invokes save with exactly the items page 1 returned when it returned at *)
(* least one, and does not invoke save when it returned none; in both      *)
(* cases it attempts no other page and terminates.                         *)
(***************************************************************************)
C14_NoTotalSavesUnlessEmpty ==
    NoTotalAnswered =>
        /\ Done
        /\ all_auctions = FirstPageItems
        /\ saves = IF FirstPageItems /= <<>> THEN <<FirstPageItems>> ELSE <<>>
        /\ OnlyPageOneAttempted

\* page 1 answered without a total count and with items, and they were saved
C14_Witness ==
    /\ NoTotalAnswered
    /\ FirstPageItems /= <<>>
    /\ saves = <<FirstPageItems>>
    /\ Done

(***************************************************************************)
(* C15.  For every total count >= 0 and page size > 0 reported by page 1,  *)
(* the page count is the ceiling of their quotient (401 items at 40 per    *)
(* page give 11 pages), and the sweep attempts exactly the pages           *)
(* 2..total_pages.                                                         *)
(***************************************************************************)
\* the least n with n * size >= cnt
Ceiling(cnt, size) ==
    CHOOSE n \in 0..cnt : n * size >= cnt /\ (n = 0 \/ (n - 1) * size < cnt)

\* the page count computed is the ceiling, over the counts and sizes the
\* crawls of the model can meet and on the example of 401 items
CeilingComputed ==
    /\ \A cnt \in 0..(TopPage * PageSize) : \A size \in 1..(PageSize + 1) :
           TotalPages(cnt, size) = Ceiling(cnt, size)
    /\ TotalPages(401, 40) = 11

\* a fetch of page p was started by the sweep: its response arrived, or a
\* task was created for it
SweepStarted(p) == hist[p] /= <<>> \/ tasks[p] /= "none"

\* pages of the sweep a fetch was started for
SweepAttempted == {p \in SweepPages : SweepStarted(p)}

\* the main sweep is over
SweepOver == total_pages >= 0 /\ pc \in {"retry_start", "retry", "validate", "done"}

C15_PageCountAndSweep ==
    /\ CeilingComputed
    /\ total_pages >= 0 => total_pages = Ceiling(total_cnt, PageSize)
    /\ \A p \in SweepPages : SweepStarted(p) => p <= total_pages
    /\ SweepOver => \A p \in 2..total_pages : SweepStarted(p)

\* a sweep over three pages or more ended, the last page being a partial one
C15_Witness ==
    /\ pc = "retry_start"
    /\ total_cnt % PageSize /= 0
    /\ total_pages >= 4
    /\ SweepAttempted = 2..total_pages
    /\ \E p \in SweepPages : tasks[p] = "cancelled"

(***************************************************************************)
(* C16.  retry_with_backoff with max_retries = R >= 0, on an operation     *)
(* that fails its first j calls and then succeeds, invokes the operation   *)
(* exactly min(j + 1, R + 1) times: R + 1 times when it never succeeds     *)
(* within them, j + 1 times, returning the first success, when j <= R.     *)
(***************************************************************************)
\* wrapper has returned or raised
RbFinished == rb_pc \in {"returned", "raised"}

C16_CallCount ==
    /\ rb_pc /= "idle" => CallsMade <= Min(rb_fail_first + 1, rb_max_retries + 1)
    /\ RbFinished =>
        /\ CallsMade = Min(rb_fail_first + 1, rb_max_retries + 1)
        /\ IF rb_fail_first <= rb_max_retries
           THEN rb_outcome = <<"returned", rb_fail_first + 1>>
           ELSE rb_pc = "raised" /\ CallsMade = rb_max_retries + 1

\* with max_retries = 3 the third call succeeded after two failures
C16_Witness ==
    /\ rb_pc = "returned"
    /\ rb_max_retries = 3
    /\ rb_fail_first = 2
    /\ CallsMade = 3

(***************************************************************************)
(* C17.  When all max_retries + 1 attempts fail, retry_with_backoff raises *)
(* exactly the error of the last attempt, unchanged in kind and content,   *)
(* and never an error of its own.                                          *)
(***************************************************************************)
C17_RaisesLastError ==
    /\ (RbFinished /\ rb_fail_first > rb_max_retries) => rb_pc = "raised"
    /\ rb_pc = "raised" =>
        LET last == rb_trace[Len(rb_trace)] IN
        /\ last[1] = "call"
        /\ last[2] = rb_max_retries + 1
        /\ rb_outcome = <<"raised", [kind |-> last[3], call |-> last[2]]>>

\* four attempts failed, the last with another kind of error than the first
C17_Witness ==
    /\ rb_pc = "raised"
    /\ rb_max_retries = 3
    /\ rb_trace[1][3] /= rb_trace[Len(rb_trace)][3]
    /\ rb_outcome[2].call = 4

(***************************************************************************)
(* C18.  The wait before attempt k (0-indexed, 1 <= k <= max_retries) is   *)
(* min(base_delay * 2^(k-1), max_delay); there is no wait before attempt 0 *)
(* and none after the final failed attempt.                                *)
(***************************************************************************)
C18_BackoffWaits ==
    /\ \A i \in DOMAIN rb_trace :
        IF i % 2 = 1
        THEN rb_trace[i][1] = "call" /\ rb_trace[i][2] = (i + 1) \div 2
        ELSE rb_trace[i] =
                <<"sleep", Min(rb_base_delay * 2 ^ ((i \div 2) - 1), rb_max_delay)>>
    /\ Len(rb_trace) <= 2 * rb_max_retries + 1
    /\ RbFinished => rb_trace[Len(rb_trace)][1] = "call"

\* four attempts failed: the first wait was below the cap, the third was cut
\* down to it
C18_Witness ==
    /\ rb_pc = "raised"
    /\ rb_max_retries = 3
    /\ Len(rb_trace) = 7
    /\ rb_trace[2][2] = rb_base_delay
    /\ rb_trace[2][2] < rb_max_delay
    /\ rb_trace[6][2] = rb_max_delay
    /\ rb_max_delay < rb_base_delay * 4

(***************************************************************************)
(* C19.  The retry pass fetches exactly the pages of failed_pages followed *)
(* by those of blocked_pages, as the two lists stand at the end of the     *)
(* main sweep, each exactly once, one after another, in that order.  The   *)
(* retry pass changes neither list, so they stand as the sweep left them.  *)
(***************************************************************************)
C19_RetryOrder ==
    /\ pc \in {"first_page", "sequential", "batch_launch", "batch_wait",
                "batch_end", "retry_start"} => retry_fetched = <<>>
    /\ pc = "retry" =>
         retry_fetched = SubSeq(failed_pages \o blocked_pages, 1, retry_idx)
    /\ (SweepOver /\ pc \in {"validate", "done"}) =>
         retry_fetched = failed_pages \o blocked_pages
    /\ \A i, j \in DOMAIN retry_fetched :
         retry_fetched[i] = retry_fetched[j] => i = j

\* the retry pass fetched a failed page and then a blocked page with a lower
\* page number
C19_Witness ==
    /\ Done
    /\ failed_pages /= <<>>
    /\ blocked_pages /= <<>>
    /\ retry_fetched = failed_pages \o blocked_pages
    /\ blocked_pages[1] < failed_pages[1]

(***************************************************************************)
(* C20.  There is a single retry pass: a page still Blocked, failed or     *)
(* empty in the retry pass does not enter successful_pages, contributes no *)
(* items and is never fetched again; no page 2..N is fetched more than     *)
(* twice in a run, and page 1 is fetched exactly once.                     *)
(***************************************************************************)
\* number of fetches started for page p: by the sweep and by the retry pass
Attempts(p) ==
    (IF SweepStarted(p) THEN 1 ELSE 0)
    + Cardinality({i \in DOMAIN retry_fetched : retry_fetched[i] = p})

\* the retry pass fetched page p and got no item for it
RetryYieldedNothing(p) ==
    /\ p \in Range(retry_fetched)
    /\ Len(hist[p]) = 2
    /\ FetchAuctionPage(p, hist[p][2]).auctions = <<>>

C20_SingleRetryPass ==
    /\ Len(hist[1]) = IF pc = "first_page" THEN 0 ELSE 1
    /\ 1 \notin Range(retry_fetched)
    /\ \A p \in SweepPages :
        /\ Attempts(p) <= 2
        /\ Len(hist[p]) <= Attempts(p)
        /\ p \in Range(retry_fetched) => Len(hist[p]) = 2
        /\ RetryYieldedNothing(p) =>
            /\ p \notin successful_pages
            /\ ItemsFrom(p) = {}

\* a page failed in the sweep and came back Blocked in the retry pass, and
\* the run ended without a third fetch of it
C20_Witness ==
    /\ Done
    /\ \E p \in SweepPages :
        /\ hist[p] = <<"err", "blocked">>
        /\ RetryYieldedNothing(p)
        /\ Attempts(p) = 2
        /\ p \notin successful_pages

(***************************************************************************)
(* C21.  Two runs of the whole pipeline against the same transport end     *)
(* with the same multiset of items in all_auctions and the same contents   *)
(* of failed_pages and blocked_pages; in batched mode whatever the order   *)
(* in which the tasks of either run finish.                                *)
(***************************************************************************)
\* the sequences a and b hold the same elements the same number of times
SameMultiset(a, b) ==
    /\ Len(a) = Len(b)
    /\ \A x \in Range(a) \cup Range(b) :
         Cardinality({i \in DOMAIN a : a[i] = x})
             = Cardinality({i \in DOMAIN b : b[i] = x})

C21_SameResultOverAgain ==
    (Done /\ run_no = 2) =>
        /\ SameMultiset(all_auctions, prev_auctions)
        /\ Range(failed_pages) = Range(prev_failed)
        /\ Range(blocked_pages) = Range(prev_blocked)

(***************************************************************************)
(* create_pnu and process_batch.                                           *)
(***************************************************************************)
\* create_pnu has returned for every row of the batch
PnusCreated == pnu_pc /= "create"

\* a code given as a str that is not width digits
NotACode(code, width) == code /= None /\ (Len(code) /= width \/ ~IsDigit(code))

\* one of the four codes of the row is given and is not a code of its width
OddCodes(row) ==
    \/ NotACode(row.daepyoSidoCd, 2)
    \/ NotACode(row.daepyoSiguCd, 3)
    \/ NotACode(row.daepyoDongCd, 3)
    \/ NotACode(row.daepyoRdCd, 2)

\* C22: create_pnu returns [None] for a row one of whose region codes is
\* shorter than its width (sido 2, sigu 3, dong 3, ri 2) or holds a character
\* that is not a digit.
C22_OddCodesRefused ==
    PnusCreated =>
        \A i \in 1..Len(row_pnus) :
            OddCodes(BatchDf[i]) => row_pnus[i] = <<None>>

\* C23: for a row without ri code (None), create_pnu returns the list it
\* returns for the same row with the ri code '00'.
C23_MissingRiIsDefault ==
    PnusCreated =>
        \A i \in 1..Len(row_pnus) :
            BatchDf[i].daepyoRdCd = None =>
                row_pnus[i] = create_pnu(BatchDf[i].daepyoSidoCd,
                                         BatchDf[i].daepyoSiguCd,
                                         BatchDf[i].daepyoDongCd,
                                         <<"0", "0">>,
                                         BatchDf[i].daepyoLotno)

\* the four codes of the row are given as digits of the required widths
ExactCodes(row) ==
    /\ row.daepyoRdCd /= None
    /\ ~OddCodes(row)

\* sido + sigu + dong + ri of a row of exact codes
CodesOf(row) ==
    row.daepyoSidoCd \o row.daepyoSiguCd \o row.daepyoDongCd \o row.daepyoRdCd

\* a number padded with zeros on the left to four digits
Padded(number) ==
    IF Len(number) >= 4 THEN number ELSE [i \in 1..(4 - Len(number)) |-> "0"] \o number

\* the PNU of a lot: prefix, land type, main and sub number of four digits
PnuOf(prefix, lot) ==
    prefix \o (IF lot.san THEN <<"2">> ELSE <<"1">>) \o Padded(lot.main)
        \o (IF lot.sub = <<>> THEN <<"0", "0", "0", "0">> ELSE Padded(lot.sub))

\* the same with a number of more than four digits cut to its first four
PnuOfCut(prefix, lot) ==
    prefix \o (IF lot.san THEN <<"2">> ELSE <<"1">>)
        \o SubSeq(Padded(lot.main), 1, 4)
        \o (IF lot.sub = <<>>
            THEN <<"0", "0", "0", "0">>
            ELSE SubSeq(Padded(lot.sub), 1, 4))

\* the rows whose lots are written as the lot numbers of lots
WrittenAs(i, lots) ==
    /\ ExactCodes(BatchDf[i])
    /\ BatchDf[i].daepyoLotno = JoinLots(lots)

\* C24: for a row of exact codes whose daepyoLotno lists lot numbers main or
\* main-sub, create_pnu returns one PNU per lot number in the order of the
\* list, each of 19 digits: the prefix, '2' for a mountain lot else '1', the
\* main number padded to four digits, the sub number padded to four digits
\* ('0000' without sub number).
C24_OnePnuPerLot ==
    pnu_pc = "gather" =>
        \A i \in 1..Len(row_pnus) : \A lots \in LotLists :
            WrittenAs(i, lots) =>
                /\ Len(row_pnus[i]) = Len(lots)
                /\ \A k \in 1..Len(lots) :
                       /\ row_pnus[i][k] = PnuOf(CodesOf(BatchDf[i]), lots[k])
                       /\ Len(row_pnus[i][k]) = 19
                       /\ IsDigit(row_pnus[i][k])

\* C24, amended: the same, a main or sub number of more than four digits
\* counting with its first four digits only.
C24_OnePnuPerLotCut ==
    pnu_pc = "gather" =>
        \A i \in 1..Len(row_pnus) : \A lots \in LotLists :
            WrittenAs(i, lots) =>
                /\ Len(row_pnus[i]) = Len(lots)
                /\ \A k \in 1..Len(lots) :
                       /\ row_pnus[i][k] = PnuOfCut(CodesOf(BatchDf[i]), lots[k])
                       /\ Len(row_pnus[i][k]) = 19
                       /\ IsDigit(row_pnus[i][k])

\* create_pnu has returned for a row of two lots: a mountain lot with a main
\* number of more than four digits and a sub number, and a plain lot of a
\* short main number without sub number
C24_Witness ==
    /\ pnu_pc = "gather"
    /\ Len(row_pnus) = 1
    /\ \E lots \in LotLists :
           /\ WrittenAs(1, lots)
           /\ Len(lots) = 2
           /\ lots[1].san /\ Len(lots[1].main) > 4 /\ lots[1].sub /= <<>>
           /\ ~lots[2].san /\ Len(lots[2].main) < 4 /\ lots[2].sub = <<>>
           /\ Len(row_pnus[1]) = 2

\* the number of slots among the first i of batch_pnus that hold a PNU
RECURSIVE Filled(_)
Filled(i) ==
    IF i = 0 THEN 0 ELSE Filled(i - 1) + (IF Truthy(batch_pnus[i]) THEN 1 ELSE 0)

\* the result gather returned for the lookup of slot i
ResultOf(i) == results[Filled(i)]

\* C25: process_batch returns one entry per slot of batch_pnus, in order: for
\* a slot without PNU an entry with an error and the index of its row, for a
\* slot with a PNU an entry with that PNU, the index of its row and what the
\* lookup of that PNU gave (its land use, or its error).
C25_OneEntryPerSlot ==
    pnu_pc = "returned" =>
        /\ Len(batch_results) = Len(batch_pnus)
        /\ \A i \in 1..Len(batch_pnus) :
               /\ batch_results[i].original_index = original_indices[i]
               /\ IF Truthy(batch_pnus[i])
                  THEN /\ batch_results[i].pnu = batch_pnus[i]
                       /\ ResultOf(i).pnu = batch_pnus[i]
                       /\ batch_results[i].land_use = ResultOf(i).land_use
                       /\ batch_results[i].error = ResultOf(i).error
                  ELSE /\ batch_results[i].pnu = None
                       /\ batch_results[i].error = "pnu"

(***************************************************************************)
(* The sequential sweep.                                                   *)
(***************************************************************************)
\* run() is in the sequential sweep or has just left it
InSequentialSweep ==
    /\ concurrency_limit = 1
    /\ total_pages >= 0
    /\ pc \in {"sequential", "retry_start"}

\* C26: in sequential mode the pages the sweep has fetched are at every
\* moment the pages 2..n for some n, each fetched once and by no task; while
\* a page is left the sweep goes on, whatever the earlier pages gave, and it
\* ends with n = total_pages.
C26_SequentialSweepInOrder ==
    InSequentialSweep =>
        /\ \A p \in SweepPages :
               /\ Len(hist[p]) = IF p <= idx + 1 THEN 1 ELSE 0
               /\ tasks[p] = "none"
        /\ pc = "sequential" => idx + 1 < total_pages
        /\ pc = "retry_start" => idx + 1 >= total_pages

\* a sequential sweep went past a page that failed and a page that was
\* blocked, and fetched the page behind them
C26_Witness ==
    /\ InSequentialSweep
    /\ pc = "retry_start"
    /\ total_pages = 4
    /\ hist[2] = <<"err">>
    /\ hist[3] = <<"blocked">>
    /\ hist[4] = <<"ok">>

\* C27: in sequential mode, up to the end of the main sweep, the items of
\* all_auctions stand in the order of their pages: an item of page p stands
\* before every item of a page q > p.
C27_ItemsInPageOrder ==
    InSequentialSweep =>
        \A i \in 1..Len(all_auctions) : \A j \in (i + 1)..Len(all_auctions) :
            all_auctions[i][1] <= all_auctions[j][1]

\* a sequential sweep ended with the items of pages 1, 3 and 4, page 2
\* having failed
C27_Witness ==
    /\ InSequentialSweep
    /\ pc = "retry_start"
    /\ successful_pages = {1, 3, 4}
    /\ failed_pages = <<2>>
    /\ Len(all_auctions) > 3

(***************************************************************************)
(* _process_result in the sweep.                                           *)
(***************************************************************************)
\* the step processes the result of a sweep fetch: an iteration of the
\* sequential loop, or of the as_completed loop of a batch
ProcessesSweepResult ==
    \/ pc = "sequential" /\ idx' = idx + 1
    \/ pc = "batch_wait" /\ consumed' = consumed + 1

\* the page of that result
ProcessedPage == IF pc = "sequential" THEN idx + 2 ELSE completed[consumed + 1]

\* C28: processing one sweep result changes the state in one way: a Blocked
\* result appends its page to blocked_pages; a result with items adds its
\* page to successful_pages and appends its items to all_auctions; any other
\* result (no items, or a transport error) appends its page to failed_pages.
\* The other collections and the total count stay as they are.
C28_OneChangePerResult ==
    [][ProcessesSweepResult =>
          LET page == ProcessedPage
              kind == hist'[page][1]
              items == IF kind = "ok" THEN ServerItems(page) ELSE <<>>
          IN  /\ total_cnt' = total_cnt
              /\ IF kind = "blocked"
                 THEN /\ blocked_pages' = Append(blocked_pages, page)
                      /\ UNCHANGED <<all_auctions, successful_pages, failed_pages>>
                 ELSE IF items /= <<>>
                 THEN /\ successful_pages' = successful_pages \cup {page}
                      /\ all_auctions' = all_auctions \o items
                      /\ UNCHANGED <<failed_pages, blocked_pages>>
                 ELSE /\ failed_pages' = Append(failed_pages, page)
                      /\ UNCHANGED <<all_auctions, successful_pages,
                                     blocked_pages>>]_vars

\* a batch has processed an empty result, a result with items and a Blocked
\* result
C28_Witness ==
    /\ concurrency_limit = 2
    /\ pc = "batch_end"
    /\ hist[2] = <<"empty">>
    /\ failed_pages = <<2>>
    /\ 3 \in successful_pages
    /\ blocked_pages = <<4>>

\* C29: at every point of a run, sequential or batched, no page stands twice
\* in failed_pages + blocked_pages.
C29_NoPageTwice ==
    LET recorded == failed_pages \o blocked_pages IN
    \A i \in 1..Len(recorded) : \A j \in (i + 1)..Len(recorded) :
        recorded[i] /= recorded[j]

\* a batched run ended in which page 3 failed in the sweep and again in the
\* retry pass
C29_Witness ==
    /\ Done
    /\ concurrency_limit = 2
    /\ hist[3] = <<"err", "err">>
    /\ failed_pages = <<3>>

(***************************************************************************)
(* The batches of _fetch_batched.                                          *)
(***************************************************************************)
\* the number of the batch that holds sweep page p, for batches of size pages
BatchOf(p, size) == (p - 2) \div size

\* C30: in batched mode (concurrency_limit = c > 1) the sweep pages
\* 2..total_pages go in increasing order into consecutive batches of 3 * c
\* pages; a page gets its one task when its batch is launched and no other;
\* at most 3 * c tasks are in flight; a task in flight belongs to the batch
\* under way, and when a batch is launched no task is in flight.
C30_BatchesOfThreeTimesLimit ==
    (concurrency_limit > 1 /\ total_pages >= 0) =>
        LET size == 3 * concurrency_limit
            current == batch_start \div size
        IN  /\ batch_start % size = 0
            /\ Cardinality({p \in SweepPages : tasks[p] = "running"}) <= size
            /\ pc = "batch_launch" =>
                   \A p \in SweepPages : tasks[p] /= "running"
            /\ \A p \in SweepPages :
                   /\ tasks[p] = "running" =>
                          pc = "batch_wait" /\ BatchOf(p, size) = current
                   /\ p > total_pages => tasks[p] = "none"
                   /\ p <= total_pages =>
                          /\ Len(hist[p]) <= 1 \/ ~InSweep
                          /\ pc = "batch_launch" =>
                                 (tasks[p] /= "none" <=> BatchOf(p, size) < current)
                          /\ pc \in {"batch_wait", "batch_end"} =>
                                 (tasks[p] /= "none" <=> BatchOf(p, size) <= current)
                          /\ SweepOver => tasks[p] /= "none"

\* the second batch of a crawl of eight pages is under way at concurrency 2:
\* the six tasks of the first batch have ended, that of page 8 is in flight
C30_Witness ==
    /\ concurrency_limit = 2
    /\ total_pages = 8
    /\ pc = "batch_wait"
    /\ batch_start = 6
    /\ \A p \in 2..7 : tasks[p] = "done"
    /\ tasks[8] = "running"

(***************************************************************************)
(* Cooldowns of the batched sweep.                                         *)
(***************************************************************************)
\* the batches that have ended, for batches of size pages
EndedBatches(size) == 0..((batch_start \div size) - 1)

\* a Blocked result of batch b was processed
BlockedIn(b, size) ==
    \E i \in 1..Len(blocked_pages) : BatchOf(blocked_pages[i], size) = b

\* C31: in batched mode the sweep has slept the block cooldown once for each
\* ended batch in which a Blocked result was processed, however many pages of
\* the batch were answered Blocked, and not otherwise; the sweep ends only
\* when every batch was launched, a blocked batch included.
C31_OneCooldownPerBlockedBatch ==
    (concurrency_limit > 1 /\ total_pages >= 0) =>
        LET size == 3 * concurrency_limit IN
        /\ cooldowns = Cardinality({b \in EndedBatches(size) : BlockedIn(b, size)})
        /\ pc = "batch_end" => (batch_blocked <=> BlockedIn(batch_start \div size, size))
        /\ SweepOver => \A p \in 2..total_pages : tasks[p] /= "none"

\* the first batch of a crawl of eight pages was blocked and cooled once,
\* and the second batch was launched and has ended
C31_Witness ==
    /\ concurrency_limit = 2
    /\ total_pages = 8
    /\ SweepOver
    /\ blocked_pages /= <<>>
    /\ blocked_pages[1] < 8
    /\ cooldowns = 1
    /\ tasks[8] = "done"

(***************************************************************************)
(* Writers of the collections.                                             *)
(***************************************************************************)
\* the step is one of a fetch task: a task that was running ends
TaskStep == \E p \in SweepPages : tasks[p] = "running" /\ tasks'[p] = "done"

\* the step is one of run(): its position, or the count of one of its
\* loops, moves on
OrchestratorStep ==
    \/ pc' /= pc
    \/ idx' /= idx
    \/ consumed' /= consumed
    \/ retry_idx' /= retry_idx

\* C32: all_auctions, successful_pages, failed_pages and blocked_pages are
\* changed by steps of run() only; the step in which a fetch task ends
\* changes none of them and hands its result over in the queue of finished
\* tasks.
C32_SingleWriter ==
    [][/\ TaskStep =>
             /\ UNCHANGED <<all_auctions, successful_pages, failed_pages,
                            blocked_pages>>
             /\ ~OrchestratorStep
             /\ \E p \in SweepPages : completed' = Append(completed, p)
       /\ <<all_auctions, successful_pages, failed_pages, blocked_pages>>'
              /= <<all_auctions, successful_pages, failed_pages, blocked_pages>>
             => OrchestratorStep /\ ~TaskStep]_vars

\* two tasks of a batch have ended, one with items and one Blocked, a third
\* is running, and run() has processed none of the results yet
C32_Witness ==
    /\ pc = "batch_wait"
    /\ consumed = 0
    /\ tasks[2] = "done" /\ hist[2] = <<"ok">>
    /\ tasks[3] = "done" /\ hist[3] = <<"blocked">>
    /\ tasks[4] = "running"
    /\ successful_pages = {1}
    /\ blocked_pages = <<>>

(***************************************************************************)
(* run() on a pipeline that has run before.                                *)
(***************************************************************************)
\* C33: every call of run(), a second call on the same object included,
\* starts with all_auctions, successful_pages, failed_pages and
\* blocked_pages empty, and a list it saves holds items of pages fetched in
\* that run only, each once.
C33_RunStartsEmpty ==
    /\ pc = "first_page" =>
           /\ all_auctions = <<>>
           /\ successful_pages = {}
           /\ failed_pages = <<>>
           /\ blocked_pages = <<>>
    /\ \A s \in 1..Len(saves) :
           \A i \in 1..Len(saves[s]) :
               /\ "ok" \in Range(hist[saves[s][i][1]])
               /\ \A j \in (i + 1)..Len(saves[s]) : saves[s][i] /= saves[s][j]

(***************************************************************************)
(* The waits of the retry pass.                                            *)
(***************************************************************************)
\* _retry_failed_pages has been entered and is past its test of retry_pages
RetryEntered == pc \in {"retry", "validate", "done"}

\* the positions of retry_trace at which the retry delay is slept
RetryDelayWaits ==
    {i \in 1..Len(retry_trace) : retry_trace[i] = Sleep("retry_delay", 1)}

\* the pages of the fetches of retry_trace, in order
FetchesOf(trace) ==
    LET fetches == SelectSeq(trace, LAMBDA e : e.event = "fetch")
    IN  [i \in 1..Len(fetches) |-> fetches[i].page]

\* C34: the retry pass sleeps the retry delay once, as its first step, when
\* failed_pages + blocked_pages is not empty; when it is empty the pass
\* neither sleeps nor fetches.  Every retry fetch comes right after a sleep
\* of twice the request delay.
C34_RetryWaits ==
    /\ RetryDelayWaits = IF retry_trace = <<>> THEN {} ELSE {1}
    /\ RetryEntered => (retry_trace = <<>> <=> RetryList = <<>>)
    /\ ~RetryEntered => retry_trace = <<>>
    /\ FetchesOf(retry_trace) = retry_fetched
    /\ \A i \in 1..Len(retry_trace) :
           retry_trace[i].event = "fetch" =>
               i > 1 /\ retry_trace[i - 1] = Sleep("request_delay", 2)

\* a run ended whose retry pass slept the retry delay and fetched two pages
C34_Witness ==
    /\ Done
    /\ Len(retry_fetched) = 2
    /\ Len(retry_trace) = 5
    /\ retry_trace[1] = Sleep("retry_delay", 1)

(***************************************************************************)
(* run() against the legacy main().                                        *)
(***************************************************************************)
\* main() is past its sweep, or has returned
MainSweepOver ==
    run_no = 2 /\ pc \in {"main_retry_start", "main_retry", "main_validate", "done"}

\* C35: in sequential mode and for the same responses of the transport,
\* main() ends its sweep with the failed_pages and blocked_pages run() ended
\* its sweep with, and hands to the storage step the item list run() handed
\* to it, or nothing when run() handed nothing.
C35_SameAsLegacyMain ==
    /\ MainSweepOver =>
           /\ failed_pages = prev_failed
           /\ blocked_pages = prev_blocked
    /\ (run_no = 2 /\ Done) =>
           \/ saves = <<>>
           \/ Len(saves) = 2 /\ saves[1] = saves[2]

(***************************************************************************)
(* all_auctions against successful_pages.                                  *)
(***************************************************************************)
\* the items of page p in all_auctions, in their order
HeldOf(p) == SelectSeq(all_auctions, LAMBDA item : item[1] = p)

\* the item list page p returned at its latest fetch
Returned(p) ==
    IF hist[p] = <<>> THEN <<>>
    ELSE FetchAuctionPage(p, hist[p][Len(hist[p])]).auctions

\* the items of a page stand together in all_auctions
PagesTogether ==
    \A i \in 1..Len(all_auctions) : \A k \in (i + 1)..Len(all_auctions) :
        all_auctions[i][1] = all_auctions[k][1] =>
            \A j \in i..k : all_auctions[j][1] = all_auctions[i][1]

\* C36: at every point of a run all_auctions is the item lists of the pages
\* of successful_pages put one after another, each list once: every item
\* belongs to a page of successful_pages, and of every such page the items
\* stand together, once each.
C36_ItemsOfSuccessfulPages ==
    /\ \A i \in 1..Len(all_auctions) : all_auctions[i][1] \in successful_pages
    /\ \A p \in successful_pages : HeldOf(p) = Returned(p)
    /\ PagesTogether

\* C37: every page of successful_pages, page 1 included, returned at least
\* one item, and all_auctions holds an item of it.
C37_SuccessfulPagesHaveItems ==
    \A p \in successful_pages :
        /\ Returned(p) /= <<>>
        /\ \E i \in 1..Len(all_auctions) : all_auctions[i][1] = p

(***************************************************************************)
(* A block phrase in a response that carries items.                        *)
(***************************************************************************)
\* the latest answer to page p after the step
AnswerAfter(p) == hist'[p][Len(hist'[p])]

\* the step retries page p
RetriesPage(p) == pc = "retry" /\ Len(hist'[p]) = Len(hist[p]) + 1

\* a 2xx response of kind k has a block phrase in its error field or in its
\* message field, and carries items
PhraseAndItems(p, k) ==
    /\ k \in {"ok", "empty", "blocked", "blocked_items", "coded_block"}
    /\ "phrase" \in {Body(p, k).error, Body(p, k).message}
    /\ Body(p, k).auctions /= <<>>

\* C38: a response with a block phrase in its error or message field is a
\* Blocked one also when it carries items, and none of its items reaches
\* all_auctions: in the sweep its page goes to blocked_pages and nothing
\* else changes; in the retry pass the items and the successful pages stay
\* as they are and the block wait is slept; on page 1 the run ends with
\* nothing collected.
C38_BlockBeforePayload ==
    [][\A p \in 1..TopPage :
          /\ (ProcessesSweepResult /\ ProcessedPage = p
                  /\ PhraseAndItems(p, AnswerAfter(p))) =>
                 /\ blocked_pages' = Append(blocked_pages, p)
                 /\ UNCHANGED <<all_auctions, successful_pages, failed_pages>>
          /\ (RetriesPage(p) /\ PhraseAndItems(p, AnswerAfter(p))) =>
                 /\ UNCHANGED <<all_auctions, successful_pages>>
                 /\ retry_trace' = retry_trace \o
                        <<Sleep("request_delay", 2), Fetch(p),
                          Sleep("retry_delay", 2)>>
          /\ (pc = "first_page" /\ Len(hist'[1]) = 1
                  /\ PhraseAndItems(1, AnswerAfter(1))) =>
                 /\ UNCHANGED <<all_auctions, successful_pages, failed_pages,
                                blocked_pages, saves>>
                 /\ pc' = "done"]_vars

(***************************************************************************)
(* A failed fetch of page 1.                                               *)
(***************************************************************************)
\* the request of page 1 made fetch_auction_page raise
FirstPageFailed ==
    /\ hist[1] /= <<>>
    /\ FetchAuctionPage(1, hist[1][1]).raised /= "none"

\* C39: when the fetch of page 1 fails, by a transport error or a Blocked
\* response, run() has returned with that one request made: no other page
\* fetched, page 1 not fetched again, no cooldown slept, no retry pass
\* entered, page 1 in neither failed_pages nor blocked_pages, nothing
\* collected and nothing saved.
C39_FirstPageFailureEndsRun ==
    FirstPageFailed =>
        /\ Done
        /\ ~CanStep
        /\ Len(hist[1]) = 1
        /\ OnlyPageOneAttempted
        /\ cooldowns = 0
        /\ cooled = {}
        /\ retry_trace = <<>>
        /\ retry_pages = <<>>
        /\ failed_pages = <<>>
        /\ blocked_pages = <<>>
        /\ successful_pages = {}
        /\ all_auctions = <<>>
        /\ saves = <<>>

\* page 1 of a listing of several pages was answered Blocked
C39_Witness ==
    /\ FirstPageFailed
    /\ hist[1] = <<"blocked">>
    /\ srv_cnt > PageSize
    /\ Done

====
